---- MODULE Spec2Model ----
(***************************************************************************)
(* State-machine model of src/app.js: the three-stage pipeline             *)
(* (runThinkingPipeline and the stage functions), the provider adapters    *)
(* (callGemini, callClaude, callOpenAI) and the API-key management         *)
(* (getEncryptionKey, saveApiKey, getApiKey, initializeApiKeys, ...); and   *)
(* of the PHP relays of src/public/api and src/dist/api.                    *)
(*                                                                         *)
(* One step of the model is one browser task: an event handler, or the     *)
(* continuation of an async function after a real suspension (fetch or     *)
(* Web Crypto), run up to its next real suspension.  Continuations that    *)
(* are only separated by already-resolved promises run in the same step.   *)
(*                                                                         *)
(* Strings the code inspects are modelled as sequences of tokens (user     *)
(* input, API keys) or as sets of the words they contain (error messages,  *)
(* response bodies), so that trim(), toLowerCase() and includes() are      *)
(* computed and not assumed.                                               *)
(***************************************************************************)
EXTENDS Integers, Sequences, FiniteSets, TLC

\* ------------------------------------------------------------------ bounds
MaxRuns == 2        \* activations of runThinkingPipeline that can be in flight
NumTexts == 2       \* distinct texts a provider may return
MaxKeyTasks == 2    \* key-management activations that can be in flight
MaxEncKeys == 2     \* encryption keys that can be generated
MaxHeaders == 2     \* headers an incoming relay request can carry

\* --------------------------------------------------------------- constants
PROMPT_ARCHITECT_MODEL == "gemini-3-flash-preview"
CODE_DISSECTOR_MODEL == "gemini-3-flash-preview"
FALLBACK_MODEL == "gemini-2.5-flash-preview-09-2025"
GENERATOR_GEMINI_MODEL == "gemini-3.0-pro-preview"
CLAUDE_MODEL == "claude-opus-4-5-20251101"
OPENAI_MODEL == "gpt-5.2-codex"

\* the options of the #code-generator-model selector, in the order
\* retryWithDifferentModel lists them
ModelOptions == <<"gemini-3.0-pro", "claude-4.5-opus", "gpt-5.2-codex">>

ProviderOrder == <<"gemini", "anthropic", "openai">>
Providers == {ProviderOrder[i] : i \in 1..Len(ProviderOrder)}

\* ------------------------------------------------------------ JS values
\* null, undefined and the texts a provider returns; all are pairs so that
\* any two of them can be compared
Null == <<"null", 0>>
Undefined == <<"undefined", 0>>
Texts == {<<"text", i>> : i \in 1..NumTexts}

\* a string as a sequence of tokens; " " is a whitespace token
IsSpace(t) == t = " "

RECURSIVE TrimStart(_)
TrimStart(s) ==
  IF s = <<>> THEN <<>>
  ELSE IF IsSpace(Head(s)) THEN TrimStart(Tail(s)) ELSE s

RECURSIVE TrimEnd(_)
TrimEnd(s) ==
  IF s = <<>> THEN <<>>
  ELSE IF IsSpace(s[Len(s)]) THEN TrimEnd(SubSeq(s, 1, Len(s) - 1)) ELSE s

\* mutant of Trim: nothing is removed
TrimNothing(s) == s

\* String.prototype.trim
Trim(s) == TrimEnd(TrimStart(s))

\* !s for a string s
Falsy(s) == s = <<>>

\* String.prototype.toLowerCase on the tokens the inputs are made of
LowerToken(t) ==
  CASE t = "Screenshot" -> "screenshot"
    [] t = "Image" -> "image"
    [] t = ".PNG" -> ".png"
    [] OTHER -> t

ToLowerCase(s) == [i \in 1..Len(s) |-> LowerToken(s[i])]

\* s.includes(term) for a token sequence s
SeqIncludes(s, term) == \E i \in 1..Len(s) : s[i] = term

\* msg.includes(word) for a message or body given as its set of words
Includes(msg, word) == word \in msg

\* --------------------------------------------------------- error messages
\* new Error(`Gemini API failed: ${response.status}`)
GeminiFailedMsg(status) == {"Gemini", "API", "failed", ToString(status)}
ClaudeKeyMissingMsg == {"Anthropic", "API", "key", "not", "found"}
ClaudeImageMsg == {"Claude", "API", "error", "image input", "Gemini", "image-based"}
ClaudeAuthMsg == {"Claude", "API", "authentication", "failed", "Anthropic", "key", ".env"}
ClaudeFailedMsg(status) == {"Claude", "API", "failed", ToString(status)}
OpenAIKeyMissingMsg == {"OpenAI", "API", "key", "not", "found"}
OpenAIImageMsg == {"OpenAI", "API", "error", "image input", "Gemini", "image-based"}
OpenAIAuthMsg == {"OpenAI", "API", "authentication", "failed", "key", ".env"}
OpenAIFailedMsg(status) == {"OpenAI", "API", "failed", ToString(status)}
\* `All models failed. Original error: ${error.message}. Fallback error: ${fallbackError.message}`
AllFailedMsg(orig, fb) == {"All", "models", "failed", "Original", "Fallback", "error"} \cup orig \cup fb
\* TypeError of a rejected fetch (the text depends on the browser)
FetchRejectMsgs == {{"Failed to fetch"}, {"Load failed"}}
\* SyntaxError of response.json() on a body that is not JSON
JsonSyntaxMsg == {"Unexpected token"}
\* TypeError of markdown.split on undefined
SplitTypeErrorMsg == {"Cannot read properties of undefined"}

\* ------------------------------------------------------- network outcomes
\* what a fetch can settle to: a rejection, or a response with a status and
\* a body.  data is the text field of a JSON body, Undefined when the body
\* is JSON without that field, InvalidJson when the body is not JSON.
InvalidJson == <<"invalid json", 0>>
FailStatuses == {401, 500}
ErrorBodies == {{"error"}, {"error", "image"}, {"error", "vision"}, {"error", "media"}}

Rejections == {[type |-> "reject", status |-> 0, body |-> {}, data |-> Undefined, msg |-> m] : m \in FetchRejectMsgs}
Successes == {[type |-> "response", status |-> 200, body |-> {}, data |-> d, msg |-> {}] : d \in Texts \cup {Undefined, InvalidJson}}
\* an error body may itself be JSON that holds the text field
FailData == {Undefined, <<"text", 1>>}
Failures == {[type |-> "response", status |-> s, body |-> b, data |-> d, msg |-> {}] : s \in FailStatuses, b \in ErrorBodies, d \in FailData}
Outcomes == Rejections \cup Successes \cup Failures

\* mutant of ResponseOk: every response counts as ok
ResponseOkAlways(o) == TRUE

\* response.ok
ResponseOk(o) == o.status >= 200 /\ o.status <= 299

Returned(v) == [ok |-> TRUE, value |-> v, msg |-> {}]
Thrown(m) == [ok |-> FALSE, value |-> Undefined, msg |-> m]

\* the try block of callGemini after the fetch has settled
GeminiResult(o) ==
  IF o.type = "reject" THEN Thrown(o.msg)
  ELSE IF ~ResponseOk(o) THEN Thrown(GeminiFailedMsg(o.status))
  ELSE IF o.data = InvalidJson THEN Thrown(JsonSyntaxMsg)
  ELSE Returned(o.data)

\* mutant of ClaudeResult: the status is tested before the body
ClaudeResultStatusFirst(o) ==
  IF o.type = "reject" THEN Thrown(o.msg)
  ELSE IF ~ResponseOk(o) THEN
    IF o.status = 401 THEN Thrown(ClaudeAuthMsg)
    ELSE IF Includes(o.body, "image") \/ Includes(o.body, "media") THEN Thrown(ClaudeImageMsg)
    ELSE Thrown(ClaudeFailedMsg(o.status))
  ELSE IF o.data = InvalidJson THEN Thrown(JsonSyntaxMsg)
  ELSE Returned(o.data)

\* the try block of callClaude after the fetch has settled
ClaudeResult(o) ==
  IF o.type = "reject" THEN Thrown(o.msg)
  ELSE IF ~ResponseOk(o) THEN
    IF Includes(o.body, "image") \/ Includes(o.body, "media") THEN Thrown(ClaudeImageMsg)
    ELSE IF o.status = 401 THEN Thrown(ClaudeAuthMsg)
    ELSE Thrown(ClaudeFailedMsg(o.status))
  ELSE IF o.data = InvalidJson THEN Thrown(JsonSyntaxMsg)
  ELSE Returned(o.data)

\* the try block of callOpenAI after the fetch has settled
OpenAIResult(o) ==
  IF o.type = "reject" THEN Thrown(o.msg)
  ELSE IF ~ResponseOk(o) THEN
    IF Includes(o.body, "image") \/ Includes(o.body, "vision") \/ Includes(o.body, "media")
    THEN Thrown(OpenAIImageMsg)
    ELSE IF o.status = 401 THEN Thrown(OpenAIAuthMsg)
    ELSE Thrown(OpenAIFailedMsg(o.status))
  ELSE IF o.data = InvalidJson THEN Thrown(JsonSyntaxMsg)
  ELSE Returned(o.data)

AdapterResult(fn, o) ==
  CASE fn = "callClaude" -> ClaudeResult(o)
    [] fn = "callOpenAI" -> OpenAIResult(o)
    [] OTHER -> GeminiResult(o)


\* ------------------------------------------------------------------ state
VARIABLES
  pipelineState,      \* the pipelineState object
  codeGeneratorModel, \* value of the #code-generator-model selector
  apiKeys,            \* geminiApiKey, anthropicApiKey, openaiApiKey
  runs,               \* the in-flight activations of runThinkingPipeline
  runInfo,            \* history of the latest run: requests, returns, failure shown
  lastOp,             \* what the last call of runThinkingPipeline did
  localStorage,       \* the items STORAGE_KEY_PREFIX + provider and + "salt"
  sessionStorage,     \* the item ENCRYPTION_KEY_NAME (0: absent)
  importMetaEnv,      \* import.meta.env.VITE_*_API_KEY || ""
  keyTasks,           \* the in-flight activations of saveApiKeys / checkConnection
  encKeysGenerated,   \* number of encryption keys derived so far
  relay               \* the request a PHP relay is handling, and its answer

pipeVars == <<pipelineState, codeGeneratorModel, runs, runInfo, lastOp>>
credVars == <<localStorage, sessionStorage, importMetaEnv, keyTasks, encKeysGenerated>>
relayVars == <<relay>>
vars == <<pipeVars, apiKeys, credVars, relayVars>>

geminiApiKey == apiKeys["gemini"]
anthropicApiKey == apiKeys["anthropic"]
openaiApiKey == apiKeys["openai"]
envGeminiApiKey == importMetaEnv["gemini"]
envAnthropicApiKey == importMetaEnv["anthropic"]
envOpenaiApiKey == importMetaEnv["openai"]

\* user inputs typed into #pipeline-input
UserInputs ==
  { <<>>,
    <<" ", " ">>,
    <<"circular", " ", "gauge">>,
    <<" ", "gauge", " ", "from", " ", "Screenshot", " ">> }

NoRequest == [url |-> "none", modelId |-> "", key |-> <<>>]

\* an activation of runThinkingPipeline: where it is suspended and its locals
IdleRun ==
  [ pc |-> "idle",            \* "idle" or "awaitFetch"
    stage |-> 0,              \* the stage function it is inside (1..3)
    selectedModel |-> "",     \* local selectedModel
    fn |-> "none",            \* the adapter whose fetch is awaited
    modelId |-> "",           \* modelId of that adapter call
    inFallback |-> FALSE,     \* inside the inner try of runCodeGenerator's catch
    origError |-> {},         \* the error that catch block caught
    prompt |-> <<"none", Null>>,  \* prompt of the stage function
    request |-> NoRequest ]   \* the fetch that is outstanding

FreshInfo ==
  [ outcome |-> "none",               \* "none", "running", "completed", "failed"
    attempts |-> <<0, 0, 0>>,         \* fetches issued per stage
    returned |-> <<Null, Null, Null>>, \* what each stage function returned
    failedStage |-> 0,                \* stage whose call threw (0: none)
    errorStep |-> 0,                  \* errorStep computed by the catch block
    errorMessage |-> {} ]             \* errorMessage put in the error panel

\* ----------------------------------------------------- the pipeline's code
\* A context c = [ps, run, info] is threaded through the code of one task.

\* fetch(url, ...) of an adapter: the request leaves with the key read now
IssueFetch(c, url, fn, modelId, key) ==
  [c EXCEPT !.run.pc = "awaitFetch",
            !.run.fn = fn,
            !.run.modelId = modelId,
            !.run.request = [url |-> url, modelId |-> modelId, key |-> key],
            !.info.attempts[c.run.stage] = @ + 1]

\* callGemini up to its fetch (the key is not tested)
CallGemini(c, modelId, keys) ==
  IssueFetch(c, "gemini", "callGemini", modelId, keys["gemini"])

\* mutant of PipelineFinally: isRunning is not reset
FinallyKeepsRunning(ps) == ps

\* finally block of runThinkingPipeline
PipelineFinally(ps) == [ps EXCEPT !.isRunning = FALSE]

\* errorStep of the catch block of runThinkingPipeline
ErrorStep(msg) ==
  IF Includes(msg, "Claude") \/ Includes(msg, "OpenAI") \/ Includes(msg, "Code Generator")
  THEN 2
  ELSE IF Includes(msg, "Code Dissector") THEN 3 ELSE 1

ImageInputPanelMsg == {"This", "model", "image input", "Gemini", "remove", "image references"}
ConnectionPanelMsg == {"API", "connection", "failed", "CORS", "restrictions", "network"}

\* errorMessage of the catch block of runThinkingPipeline
ErrorMessage(msg) ==
  IF Includes(msg, "image input") THEN ImageInputPanelMsg
  ELSE IF Includes(msg, "Load failed") \/ Includes(msg, "CORS") THEN ConnectionPanelMsg
  ELSE msg

\* mutant of CatchOutputs: the catch block clears the outputs
CatchClearsOutputs(ps) ==
  [ps EXCEPT !.step1Result = Null, !.step2Result = Null, !.step3Result = Null]

\* the step results as the catch block leaves them
CatchOutputs(ps) == ps

\* mutant of PipelineCatch: the failure of Stage 1 or 2 is recorded and the
\* next stage is requested all the same
PipelineCatchContinues(c, msg, thrower) ==
  IF thrower \in 1..2
  THEN IssueFetch([c EXCEPT !.run.stage = thrower + 1,
                            !.info.outcome = "failed",
                            !.info.failedStage = thrower,
                            !.info.errorStep = ErrorStep(msg),
                            !.info.errorMessage = ErrorMessage(msg)],
                  "gemini", "callGemini", FALLBACK_MODEL, <<>>)
  ELSE [ ps |-> PipelineFinally(CatchOutputs(c.ps)),
         run |-> IdleRun,
         info |-> [c.info EXCEPT !.outcome = "failed",
                                 !.failedStage = thrower,
                                 !.errorStep = ErrorStep(msg),
                                 !.errorMessage = ErrorMessage(msg)] ]

\* catch and finally of runThinkingPipeline; thrower is the stage whose call
\* threw, 0 when the error comes from the orchestrator's own code
PipelineCatch(c, msg, thrower) ==
  [ ps |-> PipelineFinally(CatchOutputs(c.ps)),
    run |-> IdleRun,
    info |-> [c.info EXCEPT !.outcome = "failed",
                            !.failedStage = thrower,
                            !.errorStep = ErrorStep(msg),
                            !.errorMessage = ErrorMessage(msg)] ]

\* mutant of IsApiKeyIssue: every error counts as an API-key issue
IsApiKeyIssueAlways(msg) == TRUE

\* mutant of IsApiKeyIssue: no error counts as an API-key issue
IsApiKeyIssueNever(msg) == FALSE

\* the test of runCodeGenerator's catch block
IsApiKeyIssue(msg) == Includes(msg, "authentication") \/ Includes(msg, "401")

\* catch block of runCodeGenerator
RunCodeGeneratorCatch(c, msg, keys) ==
  IF c.run.inFallback
  THEN PipelineCatch(c, AllFailedMsg(c.run.origError, msg), 2)
  ELSE IF IsApiKeyIssue(msg)
    THEN CallGemini([c EXCEPT !.run.inFallback = TRUE, !.run.origError = msg],
                    GENERATOR_GEMINI_MODEL, keys)
    ELSE PipelineCatch(c, msg, 2)

\* an adapter threw: the catch block of the stage function it was called from
\* (runPromptArchitect and runCodeDissector log and rethrow)
StageThrows(c, msg, keys) ==
  IF c.run.stage = 2 THEN RunCodeGeneratorCatch(c, msg, keys)
  ELSE PipelineCatch(c, msg, c.run.stage)

\* mutant of GeminiMayRetry: callGemini retries whatever the model
GeminiAlwaysRetries(modelId) == TRUE

\* mutant of GeminiMayRetry: callGemini never retries
GeminiNeverRetries(modelId) == FALSE

\* the test of callGemini's catch block
GeminiMayRetry(modelId) == modelId # FALLBACK_MODEL

\* mutant of CallGeminiCatch: the error rethrown quotes the key of the request
CallGeminiCatchQuotesKey(c, msg, keys) ==
  IF GeminiMayRetry(c.run.modelId) THEN CallGemini(c, FALLBACK_MODEL, keys)
  ELSE StageThrows(c, msg \cup {keys["gemini"][i] : i \in 1..Len(keys["gemini"])}, keys)

\* catch block of callGemini
CallGeminiCatch(c, msg, keys) ==
  IF GeminiMayRetry(c.run.modelId) THEN CallGemini(c, FALLBACK_MODEL, keys)
  ELSE StageThrows(c, msg, keys)

\* runPromptArchitect(userInput)
RunPromptArchitect(c, userInput, keys) ==
  CallGemini([c EXCEPT !.run.stage = 1, !.run.prompt = <<"architect", userInput>>],
             PROMPT_ARCHITECT_MODEL, keys)

\* mutant of RunCodeGenerator: the selector is read when Stage 2 is called
RunCodeGeneratorReadsSelector(c, masterPrompt, selectedModel, keys) ==
  LET c1 == [c EXCEPT !.run.stage = 2,
                      !.run.prompt = <<"generator", masterPrompt>>,
                      !.run.inFallback = FALSE,
                      !.run.origError = {}]
  IN CASE codeGeneratorModel = "claude-4.5-opus" ->
            IF Falsy(keys["anthropic"])
            THEN RunCodeGeneratorCatch(c1, ClaudeKeyMissingMsg, keys)
            ELSE IssueFetch(c1, "anthropic", "callClaude", CLAUDE_MODEL, keys["anthropic"])
       [] codeGeneratorModel = "gpt-5.2-codex" ->
            IF Falsy(keys["openai"])
            THEN RunCodeGeneratorCatch(c1, OpenAIKeyMissingMsg, keys)
            ELSE IssueFetch(c1, "openai", "callOpenAI", OPENAI_MODEL, keys["openai"])
       [] OTHER -> CallGemini(c1, GENERATOR_GEMINI_MODEL, keys)

\* runCodeGenerator(masterPrompt, selectedModel)
RunCodeGenerator(c, masterPrompt, selectedModel, keys) ==
  LET c1 == [c EXCEPT !.run.stage = 2,
                      !.run.prompt = <<"generator", masterPrompt>>,
                      !.run.inFallback = FALSE,
                      !.run.origError = {}]
  IN CASE selectedModel = "claude-4.5-opus" ->
            IF Falsy(keys["anthropic"])
            THEN RunCodeGeneratorCatch(c1, ClaudeKeyMissingMsg, keys)
            ELSE IssueFetch(c1, "anthropic", "callClaude", CLAUDE_MODEL, keys["anthropic"])
       [] selectedModel = "gpt-5.2-codex" ->
            IF Falsy(keys["openai"])
            THEN RunCodeGeneratorCatch(c1, OpenAIKeyMissingMsg, keys)
            ELSE IssueFetch(c1, "openai", "callOpenAI", OPENAI_MODEL, keys["openai"])
       [] OTHER -> CallGemini(c1, GENERATOR_GEMINI_MODEL, keys)

\* runCodeDissector(code)
RunCodeDissector(c, code, keys) ==
  CallGemini([c EXCEPT !.run.stage = 3,
                       !.run.prompt = <<"dissector", code>>,
                       !.run.inFallback = FALSE,
                       !.run.origError = {}],
             CODE_DISSECTOR_MODEL, keys)

\* mutant of AssignStepResult: the result is not stored
AssignNothing(ps, n, v) == ps

\* pipelineState.stepNResult = await <stage N>
AssignStepResult(ps, n, v) ==
  CASE n = 1 -> [ps EXCEPT !.step1Result = v]
    [] n = 2 -> [ps EXCEPT !.step2Result = v]
    [] OTHER -> [ps EXCEPT !.step3Result = v]

\* pipelineState.stepNResult
StepResult(ps, n) ==
  CASE n = 1 -> ps.step1Result
    [] n = 2 -> ps.step2Result
    [] OTHER -> ps.step3Result

\* a text with an odd index holds a fenced code block (or surrounding white
\* space), one with an even index is plain and trimmed
Fenced(v) == v \in Texts /\ v[2] % 2 = 1

\* extractCodeFromMarkdown(text): a falsy text is returned as it is, a
\* fenced text yields the code inside the fence, a plain one itself
ExtractCodeFromMarkdown(text) ==
  IF text \in {Null, Undefined} THEN text
  ELSE IF Fenced(text) THEN <<"code", text[2]>>
  ELSE text

\* mutant of StageInput: the next stage gets the copy cleaned for display
StageInputCleaned(ps, n) == ExtractCodeFromMarkdown(StepResult(ps, n))

\* the argument the try block passes to the stage after stage n:
\* pipelineState.step1Result to runCodeGenerator, step2Result to runCodeDissector
StageInput(ps, n) == StepResult(ps, n)

\* mutant of StageReturns: the run is completed when Stage 2 has returned
StageReturnsSkipsAudit(c, v, keys) ==
  LET n == c.run.stage
      c1 == [c EXCEPT !.ps = AssignStepResult(c.ps, n, v),
                      !.info.returned[n] = v]
  IN IF n = 1
     THEN RunCodeGenerator(c1, StageInput(c1.ps, 1), c.run.selectedModel, keys)
     ELSE [ ps |-> PipelineFinally(c1.ps),
            run |-> IdleRun,
            info |-> [c1.info EXCEPT !.outcome = "completed"] ]

\* the try block of runThinkingPipeline from the point where stage function
\* c.run.stage has returned v
StageReturns(c, v, keys) ==
  LET n == c.run.stage
      c1 == [c EXCEPT !.ps = AssignStepResult(c.ps, n, v),
                      !.info.returned[n] = v]
  IN CASE n = 1 -> RunCodeGenerator(c1, StageInput(c1.ps, 1), c.run.selectedModel, keys)
       [] n = 2 -> RunCodeDissector(c1, StageInput(c1.ps, 2), keys)
       [] OTHER ->
            \* renderMarkdownAudit(undefined) throws inside the try block
            IF c1.ps.step3Result = Undefined
            THEN PipelineCatch(c1, SplitTypeErrorMsg, 0)
            ELSE [ ps |-> PipelineFinally(c1.ps),
                   run |-> IdleRun,
                   info |-> [c1.info EXCEPT !.outcome = "completed"] ]

\* the continuation of a run whose fetch settled to outcome o
Settle(c, o, keys) ==
  LET res == AdapterResult(c.run.fn, o)
      c1 == [c EXCEPT !.run.pc = "idle", !.run.request = NoRequest]
  IN IF res.ok THEN StageReturns(c1, res.value, keys)
     ELSE IF c.run.fn = "callGemini" THEN CallGeminiCatch(c1, res.msg, keys)
     ELSE StageThrows(c1, res.msg, keys)

\* mutant of ReentrancyGuard: the guard is missing
ReentrancyGuardOff(ps) == FALSE

\* if (pipelineState.isRunning) return
ReentrancyGuard(ps) == ps.isRunning

\* the image terms looked for in the lower-cased input
ImageTerms == {"screenshot", "image", "picture", ".png", ".jpg", ".jpeg", ".gif", "Screenshot"}

\* mutant of ImageGate: confirm() is never raised
ImageGateNever(selectedModel, userInput) == FALSE

\* the condition under which confirm() is raised
ImageGate(selectedModel, userInput) ==
  /\ selectedModel # "gemini-3.0-pro"
  /\ \E t \in ImageTerms : SeqIncludes(ToLowerCase(userInput), t)

\* mutant of ResetState: the outputs are not reset
ResetStateKeepsOutputs(ps) == [ps EXCEPT !.isRunning = TRUE]

\* mutant of ResetState: only step1Result is reset
ResetStateKeepsLater(ps) == [ps EXCEPT !.isRunning = TRUE, !.step1Result = Null]

\* "Reset state" of runThinkingPipeline
ResetState(ps) ==
  [ps EXCEPT !.isRunning = TRUE,
             !.step1Result = Null,
             !.step2Result = Null,
             !.step3Result = Null]

ActiveRuns == {r \in 1..MaxRuns : runs[r].pc # "idle"}

\* runThinkingPipeline() with the selector at sel, the input box holding
\* userInput and confirm() answering proceed, up to the first fetch
InvokePipeline(userInput, sel, proceed) ==
  IF ReentrancyGuard(pipelineState)
  THEN /\ lastOp' = "reentrant"
       /\ UNCHANGED <<pipelineState, runs, runInfo>>
  ELSE IF Falsy(Trim(userInput))
  THEN /\ lastOp' = "empty_input"
       /\ UNCHANGED <<pipelineState, runs, runInfo>>
  ELSE IF ImageGate(sel, userInput) /\ ~proceed
  THEN /\ lastOp' = "gate_aborted"
       /\ UNCHANGED <<pipelineState, runs, runInfo>>
  ELSE \E r \in 1..MaxRuns :
         /\ runs[r].pc = "idle"
         /\ \A q \in 1..(r - 1) : runs[q].pc # "idle"
         /\ LET c0 == [ ps |-> ResetState(pipelineState),
                        run |-> [IdleRun EXCEPT !.selectedModel = sel],
                        info |-> [FreshInfo EXCEPT !.outcome = "running"] ]
                c1 == RunPromptArchitect(c0, userInput, apiKeys)
            IN /\ pipelineState' = c1.ps
               /\ runs' = [runs EXCEPT ![r] = c1.run]
               /\ runInfo' = c1.info
         /\ lastOp' = "started"

\* click on the Run button
RunThinkingPipeline(userInput, proceed) ==
  /\ InvokePipeline(userInput, codeGeneratorModel, proceed)
  /\ UNCHANGED <<codeGeneratorModel, apiKeys, credVars, relayVars>>

\* otherModels of retryWithDifferentModel
OtherModels(currentModel) == SelectSeq(ModelOptions, LAMBDA m : m # currentModel)

\* the option retryWithDifferentModel selects on this answer
RetryChoice(answer) ==
  IF answer = "1" THEN OtherModels(codeGeneratorModel)[1]
  ELSE IF answer = "2" THEN OtherModels(codeGeneratorModel)[2]
  ELSE codeGeneratorModel

\* retryWithDifferentModel() with prompt() answering answer
RetryWithDifferentModel(answer, userInput, proceed) ==
  LET otherModels == OtherModels(codeGeneratorModel)
  IN /\ UNCHANGED <<apiKeys, credVars, relayVars>>
     /\ IF answer = "1"
        THEN /\ codeGeneratorModel' = otherModels[1]
             /\ InvokePipeline(userInput, otherModels[1], proceed)
        ELSE IF answer = "2"
        THEN /\ codeGeneratorModel' = otherModels[2]
             /\ InvokePipeline(userInput, otherModels[2], proceed)
        ELSE UNCHANGED <<codeGeneratorModel, pipelineState, runs, runInfo, lastOp>>

\* the user picks another option of the selector
SelectModel(m) ==
  /\ m # codeGeneratorModel
  /\ codeGeneratorModel' = m
  /\ UNCHANGED <<pipelineState, apiKeys, runs, runInfo, lastOp, credVars, relayVars>>

\* the outstanding fetch of run r settles and the run continues
FetchSettles(r, o) ==
  /\ runs[r].pc = "awaitFetch"
  /\ UNCHANGED <<codeGeneratorModel, apiKeys, lastOp, credVars, relayVars>>
  /\ LET c1 == Settle([ps |-> pipelineState, run |-> runs[r], info |-> runInfo], o, apiKeys)
     IN /\ pipelineState' = c1.ps
        /\ runs' = [runs EXCEPT ![r] = c1.run]
        /\ runInfo' = c1.info

\* ------------------------------------------------------- key management
\* a localStorage item: the ciphertext of plain under encryption key ek.
\* NoItem is getItem() === null; the salt of key k is stored as SaltItem(k).
NoItem == [plain |-> <<>>, ek |-> 0]
Ciphertext(plain, ek) == [plain |-> plain, ek |-> ek]
SaltItem(k) == [plain |-> <<>>, ek |-> k]

StorageItems == Providers \cup {"salt"}

\* what the user may have typed into an API-key input
KeyInputs == {<<>>, <<" ">>, <<"sk-user">>, <<" ", "sk-user", " ">>}

\* hasStoredKey(provider)
HasStoredKey(provider) == localStorage[provider] # NoItem

\* hasEnvKey(provider)
HasEnvKey(provider) == FALSE

\* an activation of saveApiKeys or of the page-load handler: where it is
\* suspended and its locals
IdleTask ==
  [ pc |-> "idle",      \* "idle", "deriveKey" (getEncryptionKey derives a key),
                        \* "crypto" (encrypt or decrypt with the key in hand)
    fn |-> "none",      \* "saveApiKeys" or "checkConnection"
    phase |-> "none",   \* "save" (in saveApiKey) or "init" (in getApiKey)
    idx |-> 0,          \* position of the provider in ProviderOrder
    ek |-> 0,           \* the encryption key getEncryptionKey returned
    plain |-> <<>>,     \* saveApiKey: the trimmed key being encrypted
    cipher |-> NoItem ] \* getApiKey: the item read from localStorage

\* A world w = [ls, ss, keys, task] is threaded through the code of one task.

\* getEncryptionKey up to its first suspension: a key in sessionStorage is
\* imported, otherwise one is derived
GetEncryptionKey(w) ==
  IF w.ss # 0
  THEN [w EXCEPT !.task.pc = "crypto", !.task.ek = w.ss]
  ELSE [w EXCEPT !.task.pc = "deriveKey", !.task.ek = 0]

\* decryptData: null (here ok = FALSE) when decryption fails
DecryptData(encrypted, ek) ==
  IF encrypted.ek = ek THEN [ok |-> TRUE, plain |-> encrypted.plain]
  ELSE [ok |-> FALSE, plain |-> <<>>]

\* what getApiKey returns once decryptData has returned decrypted
GetApiKeyValue(decrypted) ==
  IF decrypted.ok /\ ~Falsy(decrypted.plain) THEN decrypted.plain ELSE <<>>

\* initializeApiKeys from the provider at position idx on, up to the next
\* suspension: a provider with no stored item resolves to "" at once
RECURSIVE InitializeApiKeys(_, _)
InitializeApiKeys(w, idx) ==
  IF idx > Len(ProviderOrder)
  THEN [w EXCEPT !.task = IdleTask]
  ELSE LET provider == ProviderOrder[idx]
           encrypted == w.ls[provider]
       IN IF encrypted = NoItem
          THEN InitializeApiKeys([w EXCEPT !.keys[provider] = <<>>], idx + 1)
          ELSE GetEncryptionKey([w EXCEPT !.task.phase = "init",
                                          !.task.idx = idx,
                                          !.task.cipher = encrypted])

\* saveApiKey(provider, apiKey) up to its first suspension
SaveApiKey(w, idx, apiKey) ==
  IF Falsy(apiKey) \/ Falsy(Trim(apiKey))
  THEN [w EXCEPT !.ls[ProviderOrder[idx]] = NoItem, !.task.pc = "idle"]
  ELSE GetEncryptionKey([w EXCEPT !.task.phase = "save",
                                  !.task.idx = idx,
                                  !.task.plain = Trim(apiKey)])

\* saveApiKeys from the input at position idx on, up to the next suspension;
\* each input is read when its turn comes, so the result is any of the worlds
\* the inputs then present allow
RECURSIVE SaveApiKeys(_, _)
SaveApiKeys(w, idx) ==
  IF idx > Len(ProviderOrder)
  THEN {InitializeApiKeys(w, 1)}
  ELSE UNION { IF ~Falsy(Trim(v)) THEN {SaveApiKey(w, idx, v)}
               ELSE SaveApiKeys(w, idx + 1) : v \in KeyInputs }

World(task) == [ls |-> localStorage, ss |-> sessionStorage, keys |-> apiKeys, task |-> task]

FreeTask(t) ==
  /\ keyTasks[t].pc = "idle"
  /\ \A q \in 1..(t - 1) : keyTasks[q].pc # "idle"

\* click on Save in the API-keys dialog
SaveApiKeysClick ==
  \E t \in 1..MaxKeyTasks :
    /\ FreeTask(t)
    /\ \E w \in SaveApiKeys(World([IdleTask EXCEPT !.fn = "saveApiKeys"]), 1) :
         /\ localStorage' = w.ls
         /\ apiKeys' = w.keys
         /\ keyTasks' = [keyTasks EXCEPT ![t] = w.task]
    /\ UNCHANGED <<sessionStorage, importMetaEnv, encKeysGenerated, pipeVars, relayVars>>

\* clearAllApiKeys() with confirm() answering confirmed
ClearAllApiKeys(confirmed) ==
  /\ confirmed
  /\ LET removed == [i \in StorageItems |-> IF i \in Providers THEN NoItem ELSE localStorage[i]]
         w == InitializeApiKeys([World(IdleTask) EXCEPT !.ls = removed], 1)
     IN /\ localStorage' = w.ls
        /\ apiKeys' = w.keys
  /\ UNCHANGED <<sessionStorage, importMetaEnv, keyTasks, encKeysGenerated, pipeVars, relayVars>>

\* getEncryptionKey after deriveKey and exportKey: the new key is put in
\* sessionStorage, its salt in localStorage
DeriveKeyDone(t) ==
  /\ keyTasks[t].pc = "deriveKey"
  /\ encKeysGenerated < MaxEncKeys
  /\ LET k == encKeysGenerated + 1
     IN /\ encKeysGenerated' = k
        /\ sessionStorage' = k
        /\ localStorage' = [localStorage EXCEPT !["salt"] = SaltItem(k)]
        /\ keyTasks' = [keyTasks EXCEPT ![t].pc = "crypto", ![t].ek = k]
  /\ UNCHANGED <<apiKeys, importMetaEnv, pipeVars, relayVars>>

\* saveApiKey after encryptData: the ciphertext is stored, saveApiKeys goes on
EncryptDone(t) ==
  /\ keyTasks[t].pc = "crypto"
  /\ keyTasks[t].phase = "save"
  /\ LET task == keyTasks[t]
         stored == [localStorage EXCEPT ![ProviderOrder[task.idx]] = Ciphertext(task.plain, task.ek)]
     IN \E w \in SaveApiKeys([World(task) EXCEPT !.ls = stored], task.idx + 1) :
          /\ localStorage' = w.ls
          /\ apiKeys' = w.keys
          /\ keyTasks' = [keyTasks EXCEPT ![t] = w.task]
  /\ UNCHANGED <<sessionStorage, importMetaEnv, encKeysGenerated, pipeVars, relayVars>>

\* getApiKey after decryptData: the active key is assigned, initializeApiKeys
\* goes on
DecryptDone(t) ==
  /\ keyTasks[t].pc = "crypto"
  /\ keyTasks[t].phase = "init"
  /\ LET task == keyTasks[t]
         value == GetApiKeyValue(DecryptData(task.cipher, task.ek))
         assigned == [apiKeys EXCEPT ![ProviderOrder[task.idx]] = value]
         w == InitializeApiKeys([World(task) EXCEPT !.keys = assigned], task.idx + 1)
     IN /\ localStorage' = w.ls
        /\ apiKeys' = w.keys
        /\ keyTasks' = [keyTasks EXCEPT ![t] = w.task]
  /\ UNCHANGED <<sessionStorage, importMetaEnv, encKeysGenerated, pipeVars, relayVars>>

InitialPipelineState ==
  [step1Result |-> Null, step2Result |-> Null, step3Result |-> Null,
   currentStep |-> 0, isRunning |-> FALSE]

\* the page is loaded again, in the same session or (closed) in a new one:
\* the script's variables start afresh, sessionStorage is empty in a new
\* session, and the DOMContentLoaded handler runs checkConnection
PageLoad(closed) ==
  /\ closed => encKeysGenerated < MaxEncKeys
  /\ sessionStorage' = IF closed THEN 0 ELSE sessionStorage
  /\ LET blank == [ ls |-> localStorage,
                    ss |-> sessionStorage',
                    keys |-> [p \in Providers |-> <<>>],
                    task |-> [IdleTask EXCEPT !.fn = "checkConnection"] ]
         w == InitializeApiKeys(blank, 1)
     IN /\ apiKeys' = w.keys
        /\ keyTasks' = [t \in 1..MaxKeyTasks |-> IF t = 1 THEN w.task ELSE IdleTask]
  /\ pipelineState' = InitialPipelineState
  /\ codeGeneratorModel' = ModelOptions[1]
  /\ runs' = [r \in 1..MaxRuns |-> IdleRun]
  /\ runInfo' = FreshInfo
  /\ lastOp' = "none"
  /\ UNCHANGED <<localStorage, importMetaEnv, encKeysGenerated, relayVars>>

\* ------------------------------------------------------------ the relays
\* The PHP relays: one request is one run of a relay script, suspended only
\* in curl_exec.  A PHP string the scripts inspect is a sequence of tokens
\* ('' is <<>>), as for the browser code.  A header name is its lower-case
\* spelling together with the letter case it was sent in, so that
\* strtolower is computed.  Parameters and headers are strings; the web
\* server hands over at most one header per case-insensitive name.

LetterCases == {"lower", "Title", "UPPER"}
HeaderName(lower, case) == [lower |-> lower, case |-> case]

\* mutant of strtolower: the name is left as it was sent
strtolowerNothing(name) == name

\* strtolower($name)
strtolower(name) == [name EXCEPT !.case = "lower"]

\* an entry $name => $value of an associative array
Entry(name, value) == [name |-> name, value |-> value]

\* the line $name . ': ' . $value of a header list
HeaderLine(name, value) == <<name, ": ", value>>

\* the boolean false that getenv returns for a variable that is not set
PhpFalse == <<"(bool) false">>

\* $a ?: $b
Elvis(a, b) == IF a \in {PhpFalse, <<>>, <<"0">>} THEN b ELSE a

\* ltrim($path, '/')
RECURSIVE ltrim(_)
ltrim(s) ==
  IF s = <<>> THEN <<>>
  ELSE IF Head(s) = "/" THEN ltrim(Tail(s)) ELSE s

\* isset($array[$name])
Isset(array, name) == \E i \in 1..Len(array) : array[i].name = name

\* $array[$name] ?? ''
ValueOr(array, name) ==
  IF Isset(array, name)
  THEN array[CHOOSE i \in 1..Len(array) : array[i].name = name].value
  ELSE <<>>

\* unset($array[$name])
Unset(array, name) == SelectSeq(array, LAMBDA e : e.name # name)

\* foreach ($incomingHeaders ...) { if (strtolower($name) === $lower)
\* { $found = $value; break; } } with $found = '' before the loop
FirstHeader(incomingHeaders, lower) ==
  LET hits == {i \in 1..Len(incomingHeaders) : strtolower(incomingHeaders[i].name) = lower}
  IN IF hits = {} THEN <<>>
     ELSE incomingHeaders[CHOOSE i \in hits : \A j \in hits : i <= j].value

\* the $blocked table of ccc_filter_incoming_headers
BlockedNames ==
  {"host", "content-length", "accept-encoding", "connection", "keep-alive",
   "proxy-authenticate", "proxy-authorization", "te", "trailer",
   "transfer-encoding", "upgrade"}
blocked == {HeaderName(n, "lower") : n \in BlockedNames}

\* ccc_filter_incoming_headers($incomingHeaders, $overrides)
ccc_filter_incoming_headers(incomingHeaders, overrides) ==
  LET kept == SelectSeq(incomingHeaders, LAMBDA h : strtolower(h.name) \notin blocked)
  IN [i \in 1..Len(kept) |-> HeaderLine(kept[i].name, kept[i].value)]
       \o [i \in 1..Len(overrides) |-> HeaderLine(overrides[i].name, overrides[i].value)]

\* ccc_build_query_string($params): the pairs http_build_query joins with &
ccc_build_query_string(params) ==
  LET filtered == SelectSeq(params, LAMBDA p : p.value # <<>>)
  IN [i \in 1..Len(filtered) |-> <<filtered[i].name, "=", filtered[i].value>>]

NoUrl == [host |-> "", path |-> <<>>, queryString |-> <<>>]

\* what a relay script has done when it exits or reaches curl_exec
\* ccc_json_error($statusCode, $message): the answer is sent, the script exits
ccc_json_error(statusCode, message) ==
  [forwarded |-> FALSE, statusCode |-> statusCode,
   body |-> <<"{\"error\":", message, "}">>,
   targetUrl |-> NoUrl, outgoingHeaders |-> <<>>]

\* ccc_forward_request($targetUrl, $outgoingHeaders) up to curl_exec
ccc_forward_request(targetUrl, outgoingHeaders) ==
  [forwarded |-> TRUE, statusCode |-> 0, body |-> <<>>,
   targetUrl |-> targetUrl, outgoingHeaders |-> outgoingHeaders]

\* what curl_exec may return: false, or the upstream status and body
CurlFailed == [ok |-> FALSE, statusCode |-> 0, body |-> <<>>]
UpstreamResponses ==
  { [ok |-> TRUE, statusCode |-> 200, body |-> <<"candidates">>],
    [ok |-> TRUE, statusCode |-> 401, body |-> <<"invalid key">>],
    [ok |-> TRUE, statusCode |-> 502, body |-> <<"bad gateway">>] }
CurlOutcomes == {CurlFailed} \cup UpstreamResponses

\* mutant of ForwardResponse: a failed transfer is answered like a success
ForwardResponseNoFailure(called, o) ==
  [called EXCEPT !.statusCode = o.statusCode, !.body = o.body]

\* ccc_forward_request after curl_exec
ForwardResponse(called, o) ==
  IF ~o.ok
  THEN [called EXCEPT !.statusCode = 502,
                      !.body = <<"{\"error\":", "Upstream request failed: ", "}">>]
  ELSE [called EXCEPT !.statusCode = o.statusCode, !.body = o.body]

\* the Anthropic relay (second script of proxy-utils.php)
AnthropicProxy(get, incomingHeaders, env) ==
  LET path == ltrim(ValueOr(get, "path"))
      fromHeader == FirstHeader(incomingHeaders, HeaderName("x-api-key", "lower"))
      apiKey == IF fromHeader = <<>> THEN Elvis(env, <<>>) ELSE fromHeader
      hasVersion == \E i \in 1..Len(incomingHeaders) :
                      strtolower(incomingHeaders[i].name) = HeaderName("anthropic-version", "lower")
      overrides ==
        <<Entry(HeaderName("x-api-key", "lower"), apiKey)>>
          \o (IF hasVersion THEN <<>>
              ELSE <<Entry(HeaderName("anthropic-version", "lower"), <<"2023-06-01">>)>>)
      targetUrl == [host |-> "https://api.anthropic.com/", path |-> path, queryString |-> <<>>]
  IN IF path = <<>> THEN ccc_json_error(400, "Missing Anthropic path")
     ELSE IF apiKey = <<>> THEN ccc_json_error(401, "Anthropic API key is not configured")
     ELSE ccc_forward_request(targetUrl, ccc_filter_incoming_headers(incomingHeaders, overrides))

\* the OpenAI relay (openai-proxy.php)
OpenaiProxy(get, incomingHeaders, env) ==
  LET path == ltrim(ValueOr(get, "path"))
      fromHeader == FirstHeader(incomingHeaders, HeaderName("authorization", "lower"))
      apiKey == Elvis(env, <<>>)
      authHeader == IF fromHeader # <<>> THEN fromHeader
                    ELSE IF apiKey # <<>> THEN <<"Bearer ">> \o apiKey
                    ELSE <<>>
      overrides == <<Entry(HeaderName("authorization", "Title"), authHeader)>>
      targetUrl == [host |-> "https://api.openai.com/", path |-> path, queryString |-> <<>>]
  IN IF path = <<>> THEN ccc_json_error(400, "Missing OpenAI path")
     ELSE IF authHeader = <<>> THEN ccc_json_error(401, "OpenAI API key is not configured")
     ELSE ccc_forward_request(targetUrl, ccc_filter_incoming_headers(incomingHeaders, overrides))

\* the Gemini relay (gemini-proxy.php)
GeminiProxy(get, incomingHeaders, env) ==
  LET path == ltrim(ValueOr(get, "path"))
      fromRequest == IF Isset(get, "key") THEN ValueOr(get, "key")
                     ELSE FirstHeader(incomingHeaders, HeaderName("x-goog-api-key", "lower"))
      apiKey == IF fromRequest = <<>> THEN Elvis(env, <<>>) ELSE fromRequest
      query == Unset(Unset(get, "path"), "key") \o <<Entry("key", apiKey)>>
      queryString == ccc_build_query_string(query)
      targetUrl == [host |-> "https://generativelanguage.googleapis.com/",
                    path |-> path, queryString |-> queryString]
  IN IF path = <<>> THEN ccc_json_error(400, "Missing Gemini path")
     ELSE IF apiKey = <<>> THEN ccc_json_error(401, "Gemini API key is not configured")
     ELSE ccc_forward_request(targetUrl, ccc_filter_incoming_headers(incomingHeaders, <<>>))

\* ---- the requests a relay may get
RelayScripts == {"anthropic", "openai", "gemini"}

\* the header each relay takes the request's key from
AuthHeaderName ==
  [anthropic |-> "x-api-key", openai |-> "authorization", gemini |-> "x-goog-api-key"]
RequestKeys ==
  [anthropic |-> <<"req-key">>, openai |-> <<"Bearer ", "req-key">>, gemini |-> <<"req-key">>]

\* the sequences of at most MaxHeaders entries of pool, no two with the same
\* case-insensitive name
HeaderLists(pool) ==
  UNION { {h \in [1..n -> pool] :
             \A i, j \in 1..n : i # j => h[i].name.lower # h[j].name.lower}
          : n \in 0..MaxHeaders }

\* headers a relay script is run with: the relay's auth header in every
\* letter case, empty or not, a version header, a blocked and a plain one
ScriptHeaderPool(script) ==
  {Entry(HeaderName(AuthHeaderName[script], c), v) :
     c \in LetterCases, v \in {<<>>, RequestKeys[script]}}
  \cup {Entry(HeaderName("anthropic-version", "Title"), <<"2023-01-01">>),
        Entry(HeaderName("host", "Title"), <<"relay.example">>),
        Entry(HeaderName("content-type", "Title"), <<"application/json">>)}

\* headers ccc_filter_incoming_headers is applied to: every blocked name and
\* three others, in every letter case
FilterHeaderPool ==
  {Entry(HeaderName(n, c), <<"v">>) :
     n \in BlockedNames \cup {"content-type", "x-api-key", "authorization"},
     c \in LetterCases}

\* the $overrides the relays pass
RelayOverrides ==
  { <<>>,
    <<Entry(HeaderName("x-api-key", "lower"), <<"env-key">>)>>,
    <<Entry(HeaderName("x-api-key", "lower"), <<"env-key">>),
      Entry(HeaderName("anthropic-version", "lower"), <<"2023-06-01">>)>>,
    <<Entry(HeaderName("authorization", "Title"), <<"Bearer ", "env-key">>)>> }

ParamChoice(name, values) == {<<>>} \cup {<<Entry(name, v)>> : v \in values}
PathValues == {<<>>, <<"/">>, <<"v1/models">>, <<"/", "v1/models">>}
PathParams == ParamChoice("path", PathValues)
GeminiParams ==
  {p \o k \o a : p \in PathParams,
                 k \in ParamChoice("key", {<<>>, <<"query-key">>}),
                 a \in ParamChoice("alt", {<<>>, <<"sse">>})}
RelayEnvValues == {PhpFalse, <<>>, <<"env-key">>}

NoResult == ccc_json_error(0, "")
IdleRelay ==
  [pc |-> "idle", script |-> "none", get |-> <<>>, incomingHeaders |-> <<>>,
   env |-> PhpFalse, overrides |-> <<>>, result |-> NoResult]

\* a relay script runs on a request, up to its exit or to curl_exec
RunRelay(script, get, incomingHeaders, env, result) ==
  /\ relay' = [pc |-> IF result.forwarded THEN "upstream" ELSE "answered",
               script |-> script, get |-> get, incomingHeaders |-> incomingHeaders,
               env |-> env, overrides |-> <<>>, result |-> result]
  /\ UNCHANGED <<pipeVars, apiKeys, credVars>>

AnthropicRequest ==
  /\ relay.pc = "idle"
  /\ \E get \in PathParams, h \in HeaderLists(ScriptHeaderPool("anthropic")), env \in RelayEnvValues :
       RunRelay("anthropic", get, h, env, AnthropicProxy(get, h, env))

OpenaiRequest ==
  /\ relay.pc = "idle"
  /\ \E get \in PathParams, h \in HeaderLists(ScriptHeaderPool("openai")), env \in RelayEnvValues :
       RunRelay("openai", get, h, env, OpenaiProxy(get, h, env))

GeminiRequest ==
  /\ relay.pc = "idle"
  /\ \E get \in GeminiParams, h \in HeaderLists(ScriptHeaderPool("gemini")), env \in RelayEnvValues :
       RunRelay("gemini", get, h, env, GeminiProxy(get, h, env))

\* curl_exec returns and ccc_forward_request answers
CurlReturns(o) ==
  /\ relay.pc = "upstream"
  /\ relay' = [relay EXCEPT !.pc = "answered", !.result = ForwardResponse(relay.result, o)]
  /\ UNCHANGED <<pipeVars, apiKeys, credVars>>

\* ccc_filter_incoming_headers applied to a header list and overrides
FilterCall ==
  /\ relay.pc = "idle"
  /\ \E h \in HeaderLists(FilterHeaderPool), overrides \in RelayOverrides :
       relay' = [IdleRelay EXCEPT !.pc = "filtered",
                                  !.script = "ccc_filter_incoming_headers",
                                  !.incomingHeaders = h,
                                  !.overrides = overrides,
                                  !.result.outgoingHeaders = ccc_filter_incoming_headers(h, overrides)]
  /\ UNCHANGED <<pipeVars, apiKeys, credVars>>

\* answers to prompt() and to confirm()
PromptAnswers == {"1", "2", "cancel"}
ConfirmAnswers == BOOLEAN

UserKey == <<"sk-user">>
EnvKey == <<"env-key">>

\* the active keys once the page has loaded: no key saved, or all three saved
ConfiguredKeys == {[p \in Providers |-> <<>>], [p \in Providers |-> UserKey]}

\* the answers confirm() can get in a call with this selection and input:
\* it is raised only when the image gate applies
Confirms(sel, u) == IF ImageGate(sel, u) THEN ConfirmAnswers ELSE {TRUE}

PipelineInit ==
  /\ pipelineState = InitialPipelineState
  /\ codeGeneratorModel = ModelOptions[1]
  /\ runs = [r \in 1..MaxRuns |-> IdleRun]
  /\ runInfo = FreshInfo
  /\ lastOp = "none"

\* the page has loaded in a session in which the keys of apiKeys were saved
Init ==
  /\ PipelineInit
  /\ apiKeys \in ConfiguredKeys
  /\ LET saved == \E p \in Providers : ~Falsy(apiKeys[p])
         k == IF saved THEN 1 ELSE 0
     IN /\ localStorage = [i \in StorageItems |->
                             IF i = "salt" THEN SaltItem(k)
                             ELSE IF Falsy(apiKeys[i]) THEN NoItem
                             ELSE Ciphertext(apiKeys[i], k)]
        /\ sessionStorage = k
        /\ encKeysGenerated = k
  /\ importMetaEnv = [p \in Providers |-> EnvKey]
  /\ keyTasks = [t \in 1..MaxKeyTasks |-> IdleTask]
  /\ relay = IdleRelay

\* the pipeline alone
Next ==
  \/ \E u \in UserInputs : \E p \in Confirms(codeGeneratorModel, u) : RunThinkingPipeline(u, p)
  \/ \E a \in PromptAnswers, u \in UserInputs :
       \E p \in Confirms(RetryChoice(a), u) : RetryWithDifferentModel(a, u, p)
  \/ \E i \in 1..Len(ModelOptions) : SelectModel(ModelOptions[i])
  \/ \E r \in 1..MaxRuns, o \in Outcomes : FetchSettles(r, o)

Spec == Init /\ [][Next]_vars

\* the first load of the page in a browser that has no item stored
CredInit ==
  /\ PipelineInit
  /\ apiKeys = [p \in Providers |-> <<>>]
  /\ localStorage = [i \in StorageItems |-> NoItem]
  /\ sessionStorage = 0
  /\ encKeysGenerated = 0
  /\ importMetaEnv = [p \in Providers |-> EnvKey]
  /\ keyTasks = [t \in 1..MaxKeyTasks |-> IdleTask]
  /\ relay = IdleRelay

\* the input and the provider responses used where key management is checked
CredUserInputs == {<<"circular", " ", "gauge">>}
CredOutcomes == {o \in Successes : o.data = <<"text", 1>>}

\* key management together with the pipeline
CredNext ==
  \/ SaveApiKeysClick
  \/ \E c \in ConfirmAnswers : ClearAllApiKeys(c)
  \/ \E t \in 1..MaxKeyTasks : DeriveKeyDone(t)
  \/ \E t \in 1..MaxKeyTasks : EncryptDone(t)
  \/ \E t \in 1..MaxKeyTasks : DecryptDone(t)
  \/ \E closed \in BOOLEAN : PageLoad(closed)
  \/ \E u \in CredUserInputs : RunThinkingPipeline(u, TRUE)
  \/ \E r \in 1..MaxRuns, o \in CredOutcomes : FetchSettles(r, o)

CredSpec == CredInit /\ [][CredNext]_vars

\* the provider responses used where termination is checked: every kind of
\* outcome, with one text for the well-formed ones (no branch of the code
\* depends on which text a provider returned)
FairOutcomes == {o \in Outcomes : o.data \in Texts => o.data = <<"text", 1>>}

FairNext ==
  \/ \E u \in UserInputs : \E p \in Confirms(codeGeneratorModel, u) : RunThinkingPipeline(u, p)
  \/ \E a \in PromptAnswers, u \in UserInputs :
       \E p \in Confirms(RetryChoice(a), u) : RetryWithDifferentModel(a, u, p)
  \/ \E i \in 1..Len(ModelOptions) : SelectModel(ModelOptions[i])
  \/ \E r \in 1..MaxRuns, o \in FairOutcomes : FetchSettles(r, o)

\* the pipeline alone, where every outstanding fetch eventually settles
FairSpec ==
  /\ Init
  /\ [][FairNext]_vars
  /\ WF_vars(\E r \in 1..MaxRuns, o \in FairOutcomes : FetchSettles(r, o))

\* the relays alone: a relay gets a request, or the header filter is applied
RelayNext ==
  \/ AnthropicRequest
  \/ OpenaiRequest
  \/ GeminiRequest
  \/ \E o \in CurlOutcomes : CurlReturns(o)
  \/ FilterCall

RelaySpec == CredInit /\ [][RelayNext]_vars

\* ------------------------------------------------------------------ claims
\* a step in which runThinkingPipeline is called, from the Run button or
\* from retryWithDifferentModel
InvocationStep ==
  \/ \E u \in UserInputs, p \in ConfirmAnswers : RunThinkingPipeline(u, p)
  \/ \E a \in {"1", "2"}, u \in UserInputs, p \in ConfirmAnswers : RetryWithDifferentModel(a, u, p)

\* a step in which runThinkingPipeline is called with an input that is not
\* blank and with confirm(), if raised, answered with OK
ValidInvocationStep ==
  \/ \E u \in {x \in UserInputs : ~Falsy(Trim(x))} : RunThinkingPipeline(u, TRUE)
  \/ \E a \in {"1", "2"}, u \in {x \in UserInputs : ~Falsy(Trim(x))} : RetryWithDifferentModel(a, u, TRUE)

\* no key-management activation is in flight
Quiescent == \A t \in 1..MaxKeyTasks : keyTasks[t].pc = "idle"

\* C1: a call of runThinkingPipeline made while isRunning is true, from the
\* Run button or through retryWithDifferentModel, changes neither
\* pipelineState nor the in-flight run and issues no request (stated by
\* contraposition: a step that changes one of them while isRunning is true
\* is no such call); at most one run is in flight at any time.
C1_Reentrancy ==
  /\ [](Cardinality(ActiveRuns) <= 1)
  /\ [][(pipelineState.isRunning /\ <<pipelineState, runs, runInfo>>' # <<pipelineState, runs, runInfo>>)
          => ~InvocationStep]_vars

\* C1 witness: a call was dropped by the guard while a run was awaiting a fetch
C1_Witness ==
  /\ lastOp = "reentrant"
  /\ pipelineState.isRunning
  /\ \E r \in 1..MaxRuns : runs[r].pc = "awaitFetch" /\ runs[r].selectedModel # codeGeneratorModel

C3_FallbackBound == \A n \in 1..3 : runInfo.attempts[n] <= 2

\* C4: whenever a run fails because a stage's call failed, errorStep equals
\* the index of that stage.
C4_FailureAttribution ==
  (runInfo.outcome = "failed" /\ runInfo.failedStage \in 1..3)
    => runInfo.errorStep = runInfo.failedStage

\* C5: within a run each stepNResult is assigned at most once, when its own
\* stage returns, with the value returned; a stage failure leaves the three
\* unchanged, so that after a failure at Stage 3 step1Result and step2Result
\* hold what Stages 1 and 2 returned, and after a failure at Stage 2
\* step1Result holds what Stage 1 returned and the other two are null.
C5_StageIsolation ==
  /\ []((runInfo.outcome = "failed" /\ runInfo.failedStage = 3) =>
          /\ pipelineState.step1Result = runInfo.returned[1]
          /\ pipelineState.step1Result # Null
          /\ pipelineState.step2Result = runInfo.returned[2]
          /\ pipelineState.step2Result # Null
          /\ pipelineState.step3Result = Null)
  /\ []((runInfo.outcome = "failed" /\ runInfo.failedStage = 2) =>
          /\ pipelineState.step1Result = runInfo.returned[1]
          /\ pipelineState.step1Result # Null
          /\ pipelineState.step2Result = Null
          /\ pipelineState.step3Result = Null)
  /\ [][\A n \in 1..3 :
          (pipelineState.isRunning /\ StepResult(pipelineState', n) # StepResult(pipelineState, n)) =>
            /\ StepResult(pipelineState, n) = Null
            /\ \E r \in 1..MaxRuns : runs[r].pc = "awaitFetch" /\ runs[r].stage = n
            /\ StepResult(pipelineState', n) = runInfo'.returned[n]]_vars
  /\ [][(runInfo.outcome = "running" /\ runInfo'.outcome = "failed" /\ runInfo'.failedStage \in 1..3) =>
          \A n \in 1..3 :
            \/ StepResult(pipelineState', n) = StepResult(pipelineState, n)
            \/ /\ n < runInfo'.failedStage
               /\ StepResult(pipelineState, n) = Null
               /\ \E r \in 1..MaxRuns : runs[r].pc = "awaitFetch" /\ runs[r].stage = n
               /\ StepResult(pipelineState', n) = runInfo'.returned[n]]_vars

\* C5 witness: a failure at Stage 3 after Stages 1 and 2 returned texts
C5_Witness ==
  /\ runInfo.outcome = "failed"
  /\ runInfo.failedStage = 3
  /\ runInfo.returned[1] \in Texts
  /\ runInfo.returned[2] \in Texts
  /\ ~pipelineState.isRunning

\* C6: provided every fetch settles, every run that set isRunning reaches a
\* terminal state (the three outputs produced, or a failure reported) with
\* isRunning false; a run starts only in a call of runThinkingPipeline, and
\* a call with valid input made while isRunning is false starts one (a step
\* from a state with isRunning false that starts no run is no such call).
C6_GuardReset ==
  /\ pipelineState.isRunning ~>
       /\ ~pipelineState.isRunning
       /\ \/ runInfo.outcome = "failed"
          \/ /\ runInfo.outcome = "completed"
             /\ \A n \in 1..3 : StepResult(pipelineState, n) # Null
  /\ [][(~pipelineState.isRunning /\ pipelineState'.isRunning) => InvocationStep]_vars
  /\ [][(~pipelineState.isRunning /\ ~(pipelineState'.isRunning /\ lastOp' = "started"))
          => ~ValidInvocationStep]_vars

\* C6 witness: a run has failed and the guard is reset
C6_Witness ==
  /\ runInfo.outcome = "failed"
  /\ ~pipelineState.isRunning
  /\ ActiveRuns = {}

\* C7: a run started while the Gemini key is absent fails before any stage
\* executes: no request is sent and no stage output is set.
C7_MissingDefaultCredential ==
  (Falsy(geminiApiKey) /\ runInfo.outcome # "none") =>
    /\ runInfo.outcome = "failed"
    /\ runInfo.attempts = <<0, 0, 0>>
    /\ \A n \in 1..3 : StepResult(pipelineState, n) = Null

\* C8: when a provider has both a stored key and an environment key, the
\* key resolved by initializeApiKeys is the stored one.
C8_CredentialPrecedence ==
  Quiescent =>
    \A p \in Providers :
      (HasStoredKey(p) /\ ~Falsy(importMetaEnv[p])) => apiKeys[p] = localStorage[p].plain

\* C9: when a provider has no stored key and an environment key, the key
\* resolved by initializeApiKeys is the environment key.
C9_EnvironmentFallback ==
  Quiescent =>
    \A p \in Providers :
      (~HasStoredKey(p) /\ ~Falsy(importMetaEnv[p])) => apiKeys[p] = importMetaEnv[p]

\* C10: at the moment a run starts, each active key equals the key stored
\* for that provider.
C10_ReResolution ==
  [][(~pipelineState.isRunning /\ pipelineState'.isRunning) =>
       \A p \in Providers : apiKeys[p] = localStorage[p].plain]_vars

\* Properties of what the settlement of a fetch does are written
\*   G => (Q \/ ~FetchSettles(r, o)),
\* which is (G /\ FetchSettles(r, o)) => Q.

\* the test callClaude and callOpenAI make on the body of a non-ok response
\* for an unsupported input modality
ModalityMarked(fn, o) ==
  CASE fn = "callClaude" -> Includes(o.body, "image") \/ Includes(o.body, "media")
    [] fn = "callOpenAI" ->
         Includes(o.body, "image") \/ Includes(o.body, "vision") \/ Includes(o.body, "media")
    [] OTHER -> FALSE

\* run r is suspended at the Stage 2 request to the selected non-default provider
AwaitsSelectedProvider(r) ==
  /\ runs[r].pc = "awaitFetch"
  /\ runs[r].stage = 2
  /\ runs[r].fn \in {"callClaude", "callOpenAI"}

C12_AbsentCredential ==
  \A r \in 1..MaxRuns :
    runs[r].pc = "awaitFetch" => ~Falsy(runs[r].request.key)

\* C13: when Stage 1 returns in a run whose selected non-default provider
\* has no key, Stage 2 makes exactly one request, to the default provider's
\* primary model.
C13_MissingCredentialFallback ==
  [][\A r \in 1..MaxRuns :
       (/\ runs[r].pc = "awaitFetch"
        /\ runs[r].stage = 1
        /\ runInfo'.returned[1] # Null
        /\ \/ runs[r].selectedModel = "claude-4.5-opus" /\ Falsy(anthropicApiKey)
           \/ runs[r].selectedModel = "gpt-5.2-codex" /\ Falsy(openaiApiKey))
       => /\ runs'[r].pc = "awaitFetch"
          /\ runs'[r].stage = 2
          /\ runs'[r].request.url = "gemini"
          /\ runs'[r].request.modelId = GENERATOR_GEMINI_MODEL
          /\ runInfo'.attempts[2] = 1]_vars

\* C14: the fallback call of runCodeGenerator's catch block is made only in
\* a run whose selected Stage 2 provider is not the default one.
C14_FallbackOnlyNonDefault ==
  \A r \in 1..MaxRuns :
    (runs[r].pc = "awaitFetch" /\ runs[r].inFallback)
      => runs[r].selectedModel # "gemini-3.0-pro"

\* the response o to a Claude or OpenAI request is an authentication
\* failure: status 401 and no unsupported-modality marker in the body
AuthFailure(fn, o) ==
  /\ o.type = "response"
  /\ o.status = 401
  /\ ~ModalityMarked(fn, o)

\* C15: when the Stage 2 request to Claude or OpenAI fails with anything but
\* an authentication failure, no further request is made: the run fails at
\* Stage 2 and the error shown is the adapter's error.
C15_NoFallbackOnOtherErrors ==
  [][\A r \in 1..MaxRuns, o \in Outcomes :
       (/\ AwaitsSelectedProvider(r)
        /\ ~AdapterResult(runs[r].fn, o).ok
        /\ ~AuthFailure(runs[r].fn, o))
       => \/ (/\ runs'[r].pc = "idle"
              /\ runInfo'.attempts = runInfo.attempts
              /\ runInfo'.outcome = "failed"
              /\ runInfo'.failedStage = 2
              /\ runInfo'.errorMessage = ErrorMessage(AdapterResult(runs[r].fn, o).msg))
          \/ ~FetchSettles(r, o)]_vars

\* C15 witness: a run failed at Stage 2 on Claude's status 500 after one
\* Stage 2 request
C15_Witness ==
  /\ runInfo.outcome = "failed"
  /\ runInfo.failedStage = 2
  /\ runInfo.attempts = <<1, 1, 0>>
  /\ runInfo.errorMessage = ClaudeFailedMsg(500)

\* the outcomes that make callGemini's try block throw
GeminiFailures == {o \in Outcomes : ~GeminiResult(o).ok}

\* run r is suspended at a request of callGemini
AwaitsGemini(r) ==
  /\ runs[r].pc = "awaitFetch"
  /\ runs[r].fn = "callGemini"

\* C16: a failed callGemini request to a model other than FALLBACK_MODEL is
\* followed by one request of the same stage to FALLBACK_MODEL; when the
\* request to FALLBACK_MODEL fails, callGemini makes no further request and
\* its caller gets that error: the run fails with it, or runCodeGenerator's
\* catch block handles it.
C16_GeminiRetry ==
  /\ [][\A r \in 1..MaxRuns :
          (AwaitsGemini(r) /\ runs[r].modelId # FALLBACK_MODEL)
          => \/ (/\ runs'[r].pc = "awaitFetch"
                 /\ runs'[r].fn = "callGemini"
                 /\ runs'[r].stage = runs[r].stage
                 /\ runs'[r].inFallback = runs[r].inFallback
                 /\ runs'[r].request.modelId = FALLBACK_MODEL
                 /\ runInfo'.attempts[runs[r].stage] = runInfo.attempts[runs[r].stage] + 1
                 /\ runInfo'.outcome = "running")
             \/ \A o \in GeminiFailures : ~FetchSettles(r, o)]_vars
  /\ [][\A r \in 1..MaxRuns :
          (AwaitsGemini(r) /\ runs[r].modelId = FALLBACK_MODEL)
          => \A o \in GeminiFailures :
               \/ (\/ /\ runs'[r].pc = "idle"
                      /\ runInfo'.attempts = runInfo.attempts
                      /\ runInfo'.outcome = "failed"
                      /\ runInfo'.failedStage = runs[r].stage
                      /\ runInfo'.errorMessage =
                           ErrorMessage(IF runs[r].inFallback
                                        THEN AllFailedMsg(runs[r].origError, GeminiResult(o).msg)
                                        ELSE GeminiResult(o).msg)
                   \/ /\ runs[r].stage = 2
                      /\ ~runs[r].inFallback
                      /\ runs'[r].inFallback
                      /\ runs'[r].origError = GeminiResult(o).msg
                      /\ runs'[r].request.modelId = GENERATOR_GEMINI_MODEL)
               \/ ~FetchSettles(r, o)]_vars

\* C16 witness: Stage 1 failed with status 500 after its two requests
C16_Witness ==
  /\ runInfo.outcome = "failed"
  /\ runInfo.failedStage = 1
  /\ runInfo.attempts = <<2, 0, 0>>
  /\ runInfo.errorMessage = GeminiFailedMsg(500)

\* C17: no stage returns, and no step result holds, the undefined that the
\* missing text field of a success response yields.
C17_MalformedResponse ==
  \A n \in 1..3 :
    /\ runInfo.returned[n] # Undefined
    /\ StepResult(pipelineState, n) # Undefined

\* C18: a response with a status outside 200..299, whatever its body, sets
\* no step result and makes no stage return: the run fails, or the next
\* request of the same stage is made.
C18_Non2xxIsError ==
  [][\A r \in 1..MaxRuns :
       runs[r].pc = "awaitFetch"
       => \/ (/\ \A n \in 1..3 : StepResult(pipelineState', n) = StepResult(pipelineState, n)
              /\ runInfo'.returned = runInfo.returned
              /\ \/ runInfo'.outcome = "failed" /\ runs'[r].pc = "idle"
                 \/ /\ runs'[r].pc = "awaitFetch"
                    /\ runs'[r].stage = runs[r].stage
                    /\ runInfo'.attempts[runs[r].stage] = runInfo.attempts[runs[r].stage] + 1)
          \/ \A o \in Failures : o.status \in 200..299 \/ ~FetchSettles(r, o)]_vars

\* C18 witness: Stage 3 failed on status 401 after two requests and
\* step3Result is still null
C18_Witness ==
  /\ runInfo.outcome = "failed"
  /\ runInfo.failedStage = 3
  /\ runInfo.attempts[3] = 2
  /\ runInfo.errorMessage = GeminiFailedMsg(401)
  /\ pipelineState.step3Result = Null

\* C19: a non-ok response to Claude or OpenAI whose body carries the
\* adapter's unsupported-modality marker ends the run, whatever its status:
\* no further request is made and the image-input message is shown.
C19_ModalityNotRetried ==
  [][\A r \in 1..MaxRuns, o \in Failures :
       (/\ AwaitsSelectedProvider(r)
        /\ ModalityMarked(runs[r].fn, o))
       => \/ (/\ runs'[r].pc = "idle"
              /\ runInfo'.attempts = runInfo.attempts
              /\ runInfo'.outcome = "failed"
              /\ runInfo'.failedStage = 2
              /\ runInfo'.errorMessage = ImageInputPanelMsg)
          \/ ~FetchSettles(r, o)]_vars

\* C19 witness: a run failed at Stage 2 with the image-input message after
\* one Stage 2 request
C19_Witness ==
  /\ runInfo.outcome = "failed"
  /\ runInfo.failedStage = 2
  /\ runInfo.attempts = <<1, 1, 0>>
  /\ runInfo.errorMessage = ImageInputPanelMsg

\* C20: at most one request is outstanding; while a Stage 2 request is
\* outstanding step1Result holds what Stage 1 returned, while a Stage 3
\* request is outstanding step2Result holds what Stage 2 returned; a request
\* of a stage after its first is made only in the step in which the stage's
\* outstanding request has failed.
C20_StrictSequencing ==
  /\ [](Cardinality(ActiveRuns) <= 1)
  /\ [](\A r \in 1..MaxRuns :
          runs[r].pc = "awaitFetch" =>
            /\ runs[r].stage >= 2 =>
                 /\ pipelineState.step1Result # Null
                 /\ pipelineState.step1Result = runInfo.returned[1]
            /\ runs[r].stage = 3 =>
                 /\ pipelineState.step2Result # Null
                 /\ pipelineState.step2Result = runInfo.returned[2])
  /\ []((runInfo.attempts[2] > 0 => runInfo.returned[1] # Null)
        /\ (runInfo.attempts[3] > 0 => runInfo.returned[2] # Null))
  /\ [][\A n \in 1..3 :
          (runInfo.attempts[n] >= 1 /\ runInfo'.attempts[n] > runInfo.attempts[n]) =>
            /\ runInfo'.attempts[n] = runInfo.attempts[n] + 1
            /\ \E r \in 1..MaxRuns, o \in Outcomes :
                 /\ runs[r].pc = "awaitFetch"
                 /\ runs[r].stage = n
                 /\ ~AdapterResult(runs[r].fn, o).ok
                 /\ FetchSettles(r, o)]_vars

\* C20 witness: Stage 3's second request, to FALLBACK_MODEL, is outstanding
\* and step2Result holds a text
C20_Witness ==
  \E r \in 1..MaxRuns :
    /\ runs[r].pc = "awaitFetch"
    /\ runs[r].stage = 3
    /\ runs[r].request.modelId = FALLBACK_MODEL
    /\ runInfo.attempts[3] = 2
    /\ pipelineState.step2Result \in Texts

\* C21: once the call of Stage 1 or Stage 2 has thrown, the run is over: no
\* request is outstanding, no request of a later stage was made and the
\* outputs of the later stages are null; nothing of this changes before a
\* call of runThinkingPipeline starts the next run.
C21_FailureAborts ==
  /\ [](\A n \in 1..2 :
          (runInfo.outcome = "failed" /\ runInfo.failedStage = n) =>
            /\ ActiveRuns = {}
            /\ \A m \in (n + 1)..3 :
                 /\ runInfo.attempts[m] = 0
                 /\ runInfo.returned[m] = Null
                 /\ StepResult(pipelineState, m) = Null)
  /\ [][(/\ runInfo.outcome = "failed"
          /\ <<pipelineState, runs, runInfo>>' # <<pipelineState, runs, runInfo>>)
         => /\ lastOp' = "started"
            /\ pipelineState' = [ResetState(pipelineState) EXCEPT !.isRunning = TRUE]
            /\ runInfo'.outcome = "running"
            /\ runInfo'.attempts = <<1, 0, 0>>]_vars

\* C21 witness: Stage 2 failed after its request and its retry; Stage 1's
\* text is kept and Stage 3 was never requested
C21_Witness ==
  /\ runInfo.outcome = "failed"
  /\ runInfo.failedStage = 2
  /\ runInfo.attempts = <<1, 2, 0>>
  /\ pipelineState.step1Result \in Texts
  /\ pipelineState.step3Result = Null

\* the well-formed success responses
TextResponses == {o \in Successes : o.data \in Texts}

\* the key test of callClaude and callOpenAI fails for this selection
SelectedKeyMissing(selectedModel) ==
  \/ selectedModel = "claude-4.5-opus" /\ Falsy(anthropicApiKey)
  \/ selectedModel = "gpt-5.2-codex" /\ Falsy(openaiApiKey)

\* C22: while a Stage 2 request is outstanding, the fallback's included, its
\* prompt was built from the value held by step1Result, which is what
\* Stage 1 returned in this run; while a Stage 3 request is outstanding its
\* prompt was built from the value held by step2Result, which is what
\* Stage 2 returned in this run; and when a request of Stage 1 (Stage 2)
\* returns a text, that very text is stored and handed to Stage 2 (Stage 3),
\* whose request is then outstanding unless the adapter selected for Stage 2
\* found its key missing and sent nothing.
C22_VerbatimDataFlow ==
  /\ [](\A r \in 1..MaxRuns :
          runs[r].pc = "awaitFetch" =>
            /\ runs[r].stage = 2 =>
                 /\ runs[r].prompt = <<"generator", pipelineState.step1Result>>
                 /\ pipelineState.step1Result = runInfo.returned[1]
            /\ runs[r].stage = 3 =>
                 /\ runs[r].prompt = <<"dissector", pipelineState.step2Result>>
                 /\ pipelineState.step2Result = runInfo.returned[2])
  /\ [][\A r \in 1..MaxRuns :
          (runs[r].pc = "awaitFetch" /\ runs[r].stage \in 1..2)
          => \A o \in TextResponses :
               \/ (/\ StepResult(pipelineState', runs[r].stage) = o.data
                   /\ runInfo'.returned[runs[r].stage] = o.data
                   /\ \/ /\ runs'[r].pc = "awaitFetch"
                         /\ runs'[r].stage = runs[r].stage + 1
                         /\ runs'[r].prompt =
                              <<IF runs[r].stage = 1 THEN "generator" ELSE "dissector", o.data>>
                      \/ /\ runs[r].stage = 1
                         /\ SelectedKeyMissing(runs[r].selectedModel)
                         /\ runInfo'.outcome = "failed"
                         /\ runInfo'.attempts[2] = 0)
               \/ ~FetchSettles(r, o)]_vars

\* C22 witness: in a second run, Stage 3 is audited on the fenced text the
\* fallback call of Stage 2 returned, which differs from its cleaned copy
\* and from Stage 1's text
C22_Witness ==
  \E r \in 1..MaxRuns :
    /\ runs[r].pc = "awaitFetch"
    /\ runs[r].stage = 3
    /\ runInfo.attempts[2] >= 2
    /\ runs[r].selectedModel = "gpt-5.2-codex"
    /\ pipelineState.step1Result = <<"text", 2>>
    /\ pipelineState.step2Result = <<"text", 1>>
    /\ ExtractCodeFromMarkdown(pipelineState.step2Result) # pipelineState.step2Result
    /\ runs[r].prompt = <<"dissector", <<"text", 1>>>>

\* the model the first request of stage n goes to when the default provider
\* is selected
PrimaryModel(n) ==
  CASE n = 1 -> PROMPT_ARCHITECT_MODEL
    [] n = 2 -> GENERATOR_GEMINI_MODEL
    [] OTHER -> CODE_DISSECTOR_MODEL

\* run r, started with the default provider selected, is suspended at the
\* first request of its stage and every earlier request returned a text
OnHappyPath(r) ==
  /\ runs[r].pc = "awaitFetch"
  /\ runs[r].selectedModel = ModelOptions[1]
  /\ runInfo.attempts = [m \in 1..3 |-> IF m <= runs[r].stage THEN 1 ELSE 0]
  /\ \A m \in 1..(runs[r].stage - 1) : runInfo.returned[m] \in Texts

\* C23: a run started with the default provider selected begins with one
\* Stage 1 request; as long as every request returns a text, the text Stage
\* 1 (Stage 2) returns is stored and the first request of Stage 2 (Stage 3)
\* is made, and when Stage 3 returns its text the run is completed:
\* isRunning is false, no request is outstanding and the three outputs are
\* the three returned texts.
C23_HappyPath ==
  /\ [][(runInfo.outcome # "running" /\ runInfo'.outcome = "running")
         => \E r \in 1..MaxRuns :
              /\ runs'[r].pc = "awaitFetch"
              /\ runs'[r].stage = 1
              /\ runs'[r].request.modelId = PrimaryModel(1)
              /\ runInfo'.attempts = <<1, 0, 0>>
              /\ pipelineState'.isRunning]_vars
  /\ [][\A r \in 1..MaxRuns :
          OnHappyPath(r)
          => \A o \in TextResponses :
               \/ (/\ StepResult(pipelineState', runs[r].stage) = o.data
                   /\ runInfo'.returned = [runInfo.returned EXCEPT ![runs[r].stage] = o.data]
                   /\ \A m \in 1..(runs[r].stage - 1) :
                        StepResult(pipelineState', m) = runInfo.returned[m]
                   /\ IF runs[r].stage < 3
                      THEN /\ runs'[r].pc = "awaitFetch"
                           /\ runs'[r].stage = runs[r].stage + 1
                           /\ runs'[r].request.modelId = PrimaryModel(runs[r].stage + 1)
                           /\ runInfo'.attempts =
                                [runInfo.attempts EXCEPT ![runs[r].stage + 1] = 1]
                           /\ runInfo'.outcome = "running"
                           /\ pipelineState'.isRunning
                      ELSE /\ runInfo'.outcome = "completed"
                           /\ runInfo'.attempts = <<1, 1, 1>>
                           /\ ~pipelineState'.isRunning
                           /\ \A q \in 1..MaxRuns : runs'[q].pc = "idle")
               \/ ~FetchSettles(r, o)]_vars

\* C23 witness: a run with the default provider has completed after one
\* request per stage, with three texts, not all the same, as its outputs
C23_Witness ==
  /\ runInfo.outcome = "completed"
  /\ runInfo.attempts = <<1, 1, 1>>
  /\ ~pipelineState.isRunning
  /\ pipelineState.step1Result = <<"text", 1>>
  /\ pipelineState.step2Result = <<"text", 2>>
  /\ pipelineState.step3Result = <<"text", 1>>
  /\ runInfo.returned = <<<<"text", 1>>, <<"text", 2>>, <<"text", 1>>>>
  /\ codeGeneratorModel = ModelOptions[1]

\* the inputs that are empty or hold only whitespace
BlankInputs == {u \in UserInputs : \A i \in 1..Len(u) : IsSpace(u[i])}

\* a step in which runThinkingPipeline is called with a blank input (the
\* answer to confirm() plays no part: the input test comes first)
BlankInvocationStep ==
  \/ \E u \in BlankInputs : RunThinkingPipeline(u, TRUE)
  \/ \E a \in {"1", "2"}, u \in BlankInputs : RetryWithDifferentModel(a, u, TRUE)

\* C24: a call of runThinkingPipeline with an empty or whitespace-only input
\* starts no run: pipelineState (isRunning and the three outputs), the
\* activations and the request counts are as before the call; made while
\* isRunning is false, the call ends at the input test.  Stated by
\* contraposition: a step that changes one of them, or that starts from
\* isRunning false and does not end at the input test, is no such call.
C24_InputGuard ==
  [][(\/ <<pipelineState, runs, runInfo>>' # <<pipelineState, runs, runInfo>>
      \/ ~pipelineState.isRunning /\ lastOp' # "empty_input")
     => ~BlankInvocationStep]_vars

\* C24 witness: after a completed run a call with a blank input was turned
\* away and the three outputs of that run are still in place
C24_Witness ==
  /\ lastOp = "empty_input"
  /\ runInfo.outcome = "completed"
  /\ ~pipelineState.isRunning
  /\ ActiveRuns = {}
  /\ \A n \in 1..3 : StepResult(pipelineState, n) \in Texts

\* the image-related terms, and the inputs that hold one in any case
ImageWords == {"screenshot", "image", "picture", ".png", ".jpg", ".jpeg", ".gif"}
MentionsImage(u) == \E i \in 1..Len(u) : LowerToken(u[i]) \in ImageWords

\* the state a call with input u and selection sel leaves when it starts a run
StartedRun(u, sel) ==
  /\ lastOp' = "started"
  /\ pipelineState' = [pipelineState EXCEPT !.isRunning = TRUE,
                                             !.step1Result = Null,
                                             !.step2Result = Null,
                                             !.step3Result = Null]
  /\ runInfo' = [FreshInfo EXCEPT !.outcome = "running", !.attempts = <<1, 0, 0>>]
  /\ \E r \in 1..MaxRuns :
       /\ runs[r].pc = "idle"
       /\ runs' = [runs EXCEPT ![r] =
                     [IdleRun EXCEPT !.pc = "awaitFetch",
                                     !.stage = 1,
                                     !.selectedModel = sel,
                                     !.fn = "callGemini",
                                     !.modelId = PROMPT_ARCHITECT_MODEL,
                                     !.prompt = <<"architect", u>>,
                                     !.request = [url |-> "gemini",
                                                  modelId |-> PROMPT_ARCHITECT_MODEL,
                                                  key |-> geminiApiKey]]]

\* the state a call leaves when confirm() is answered with Cancel
GateAborted ==
  /\ lastOp' = "gate_aborted"
  /\ UNCHANGED <<pipelineState, runs, runInfo>>

\* the inputs that pass the input guard
ValidInputs == {u \in UserInputs : \E i \in 1..Len(u) : ~IsSpace(u[i])}

\* C25: for a call made while no run is in flight with an input that is not
\* blank.  Selection not the default and input with an image term: the
\* answer to confirm() decides; on Cancel pipelineState, the activations and
\* the request counts are unchanged, on OK the run is started in the very
\* state an ungated call leaves.  Default selection: the call starts the
\* run whatever confirm() would answer, that is, confirm() is not consulted.
\* The same for the call made by retryWithDifferentModel with the selection
\* it has just written.  (A call from the Run button leaves the selector as
\* it is and one from retryWithDifferentModel leaves it at the option
\* chosen: steps that do otherwise are set aside first.)
C25_PreflightGate ==
  [][~pipelineState.isRunning =>
       /\ \/ codeGeneratorModel' # codeGeneratorModel
          \/ \A u \in ValidInputs :
               /\ \/ GateAborted
                  \/ ~(codeGeneratorModel # ModelOptions[1] /\ MentionsImage(u))
                  \/ ~RunThinkingPipeline(u, FALSE)
               /\ \/ StartedRun(u, codeGeneratorModel)
                  \/ ~RunThinkingPipeline(u, TRUE)
               /\ \/ StartedRun(u, codeGeneratorModel)
                  \/ ~(codeGeneratorModel = ModelOptions[1] \/ ~MentionsImage(u))
                  \/ ~RunThinkingPipeline(u, FALSE)
       /\ \/ codeGeneratorModel' = codeGeneratorModel
          \/ \A a \in {"1", "2"} :
               LET sel == RetryChoice(a)
               IN \/ codeGeneratorModel' # sel
                  \/ \A u \in ValidInputs :
                       /\ \/ GateAborted
                          \/ ~(sel # ModelOptions[1] /\ MentionsImage(u))
                          \/ ~RetryWithDifferentModel(a, u, FALSE)
                       /\ \/ StartedRun(u, sel)
                          \/ ~RetryWithDifferentModel(a, u, TRUE)
                       /\ \/ StartedRun(u, sel)
                          \/ ~(sel = ModelOptions[1] \/ ~MentionsImage(u))
                          \/ ~RetryWithDifferentModel(a, u, FALSE)]_vars

\* C25 witness: with Claude selected, a call whose input mentions a
\* screenshot was cancelled at confirm() after a completed run, whose
\* outputs are still in place
C25_Witness ==
  /\ lastOp = "gate_aborted"
  /\ codeGeneratorModel = "claude-4.5-opus"
  /\ runInfo.outcome = "completed"
  /\ ~pipelineState.isRunning
  /\ pipelineState.step3Result \in Texts

\* the largest number of requests a stage makes, and a run makes
MaxStageRequests == <<2, 4, 2>>
MaxRequestsPerRun == MaxStageRequests[1] + MaxStageRequests[2] + MaxStageRequests[3]

\* C26: whatever is selected and however the requests fail, a run makes at
\* most 2, 4 and 2 requests for its three stages, 8 in all, and 3 for Stage
\* 2 when Claude or OpenAI is selected; a request that follows a failed
\* request to FALLBACK_MODEL in the same stage is never callGemini's own
\* retry but the first request of runCodeGenerator's fallback branch; once
\* entered, that branch is not entered again: the next request of Stage 2,
\* if any, is the branch's own retry with FALLBACK_MODEL, and a run never
\* goes back to an earlier stage.
C26_BoundedRetries ==
  /\ [](/\ \A n \in 1..3 : runInfo.attempts[n] <= MaxStageRequests[n]
        /\ runInfo.attempts[1] + runInfo.attempts[2] + runInfo.attempts[3] <= MaxRequestsPerRun
        /\ \A r \in 1..MaxRuns :
             (runs[r].pc = "awaitFetch" /\ runs[r].selectedModel # ModelOptions[1])
               => runInfo.attempts[2] <= 3)
  /\ [][\A r \in 1..MaxRuns :
          (/\ AwaitsGemini(r)
           /\ runs[r].modelId = FALLBACK_MODEL
           /\ runs'[r] # runs[r]
           /\ runs'[r].pc = "awaitFetch"
           /\ runs'[r].stage = runs[r].stage)
          => /\ runs[r].stage = 2
             /\ ~runs[r].inFallback
             /\ runs'[r].inFallback
             /\ runs'[r].request.modelId = GENERATOR_GEMINI_MODEL]_vars
  /\ [][\A r \in 1..MaxRuns :
          (runs[r].pc = "awaitFetch" /\ runs'[r] # runs[r] /\ runs'[r].pc = "awaitFetch")
          => /\ runs'[r].stage >= runs[r].stage
             /\ (runs[r].inFallback /\ runs'[r].stage = runs[r].stage)
                  => /\ runs'[r].inFallback
                     /\ runs'[r].origError = runs[r].origError
                     /\ runs[r].modelId = GENERATOR_GEMINI_MODEL
                     /\ runs'[r].request.modelId = FALLBACK_MODEL]_vars

\* C26 witness: a run that made the largest number of requests for every stage
C26_Witness ==
  /\ runInfo.attempts = MaxStageRequests
  /\ runInfo.attempts[1] + runInfo.attempts[2] + runInfo.attempts[3] = MaxRequestsPerRun
  /\ runInfo.outcome \in {"failed", "completed"}

\* C27: the requests of one run carry the key values that were active when
\* the run started.  The first request of a run is sent in the step that
\* starts it, so this is: every later request of the run carries, for its
\* provider, the key the run's previous request to that provider carried.
C27_CredentialsFixed ==
  [][\A r \in 1..MaxRuns :
       (/\ runs[r].pc = "awaitFetch"
        /\ runs'[r].pc = "awaitFetch"
        /\ runs'[r].request.url = runs[r].request.url)
       => runs'[r].request.key = runs[r].request.key]_vars

\* C28: the step that starts a run leaves the three outputs null, with
\* Stage 1's request outstanding; and while isRunning is true every output is
\* what its stage returned in the current run, null if it has not returned.
C28_FreshRun ==
  /\ [][(~pipelineState.isRunning /\ pipelineState'.isRunning)
         => /\ \A n \in 1..3 : StepResult(pipelineState', n) = Null
            /\ runInfo'.returned = <<Null, Null, Null>>
            /\ runInfo'.attempts = <<1, 0, 0>>]_vars
  /\ [](pipelineState.isRunning
          => \A n \in 1..3 : StepResult(pipelineState, n) = runInfo.returned[n])

\* C28 witness: a run is at Stage 3; its first two outputs are the texts
\* Stages 1 and 2 returned in it and step3Result is null
C28_Witness ==
  /\ pipelineState.isRunning
  /\ \E r \in 1..MaxRuns : runs[r].pc = "awaitFetch" /\ runs[r].stage = 3
  /\ pipelineState.step1Result = <<"text", 2>>
  /\ pipelineState.step2Result = <<"text", 2>>
  /\ runInfo.returned = <<<<"text", 2>>, <<"text", 2>>, Null>>
  /\ pipelineState.step3Result = Null
  /\ lastOp = "reentrant"

\* another value a saved key can have
AltKey == <<"sk-alt">>

\* the key assignments that differ from keys in the values of the keys
\* present only
SamePresence(keys) ==
  {k \in [Providers -> {<<>>, UserKey, AltKey}] : \A p \in Providers : Falsy(k[p]) <=> Falsy(keys[p])}

\* the context of run r as it would be had the keys been k all along: the
\* outstanding request carries k's key for its provider
Rekeyed(r, k) ==
  [ ps |-> pipelineState,
    run |-> [runs[r] EXCEPT !.request.key = k[runs[r].request.url]],
    info |-> runInfo ]

\* the words of the active keys
KeyWords == UNION {{apiKeys[p][i] : i \in 1..Len(apiKeys[p])} : p \in Providers}

\* C29: the message shown for a failed run holds no word of an active key;
\* and for every outstanding request and every way it can settle, the run
\* continued with other values for the keys that are present reaches the
\* same outcome, the same outputs and the same message: two runs that
\* differ only in key values and get the same responses agree step by step
\* on everything but the keys their requests carry.
C29_NoCredentialLeak ==
  /\ runInfo.errorMessage \cap KeyWords = {}
  /\ \A r \in 1..MaxRuns :
       runs[r].pc = "awaitFetch" =>
         \A o \in Outcomes, k \in SamePresence(apiKeys) :
           LET mine == Settle(Rekeyed(r, apiKeys), o, apiKeys)
               other == Settle(Rekeyed(r, k), o, k)
           IN /\ other.info = mine.info
              /\ other.ps = mine.ps
              /\ [other.run EXCEPT !.request.key = <<>>] = [mine.run EXCEPT !.request.key = <<>>]
              /\ other.info.errorMessage \cap {UserKey[1], AltKey[1]} = {}

\* C29 witness: with the keys saved, a run whose Claude request was answered
\* 401 and whose fallback requests failed shows its message
C29_Witness ==
  /\ runInfo.outcome = "failed"
  /\ ~Falsy(geminiApiKey)
  /\ ~Falsy(anthropicApiKey)
  /\ runInfo.attempts = <<1, 3, 0>>
  /\ runInfo.errorMessage = AllFailedMsg(ClaudeAuthMsg, GeminiFailedMsg(401))

\* the provider runCodeGenerator calls first for a selection
ProviderOf(selectedModel) ==
  CASE selectedModel = "claude-4.5-opus" -> "anthropic"
    [] selectedModel = "gpt-5.2-codex" -> "openai"
    [] OTHER -> "gemini"

\* C30: a run holds the selection read when it started for as long as it is
\* in flight; Stage 2's first request goes to the provider of that
\* selection, whatever the selector shows by then, and if Stage 2 fails
\* without a request it is that provider's key that is missing; a step that
\* changes the selector while a run is in flight, retryWithDifferentModel's
\* included, changes neither pipelineState nor the run nor its request
\* counts; at most one run is in flight.
C30_SelectionCaptured ==
  /\ [](Cardinality(ActiveRuns) <= 1)
  /\ [](\A r \in 1..MaxRuns :
          (runs[r].pc = "awaitFetch" /\ runs[r].stage = 2 /\ runInfo.attempts[2] = 1)
            => runs[r].request.url = ProviderOf(runs[r].selectedModel))
  /\ [][(~pipelineState.isRunning /\ pipelineState'.isRunning)
         => \E r \in 1..MaxRuns :
              /\ runs[r].pc = "idle"
              /\ runs'[r].pc = "awaitFetch"
              /\ runs'[r].selectedModel = codeGeneratorModel']_vars
  /\ [][\A r \in 1..MaxRuns :
          runs[r].pc = "awaitFetch"
          => /\ runs'[r].pc = "awaitFetch" => runs'[r].selectedModel = runs[r].selectedModel
             /\ (runs[r].stage = 1 /\ runs'[r].pc = "awaitFetch" /\ runs'[r].stage = 2)
                  => /\ runs'[r].request.url = ProviderOf(runs[r].selectedModel)
                     /\ runInfo'.attempts[2] = 1
             /\ (/\ runs[r].stage = 1
                 /\ runs'[r].pc = "idle"
                 /\ runInfo'.returned[1] # Null
                 /\ runInfo'.attempts[2] = 0)
                  => /\ SelectedKeyMissing(runs[r].selectedModel)
                     /\ runInfo'.failedStage = 2]_vars
  /\ [][(pipelineState.isRunning /\ codeGeneratorModel' # codeGeneratorModel)
         => UNCHANGED <<pipelineState, runs, runInfo>>]_vars

\* C30 witness: Stage 2's request to Claude is outstanding in a run started
\* with Claude selected, after retryWithDifferentModel set the selector to
\* gpt-5.2-codex and its call was dropped by the guard
C30_Witness ==
  /\ lastOp = "reentrant"
  /\ codeGeneratorModel = "gpt-5.2-codex"
  /\ \E r \in 1..MaxRuns :
       /\ runs[r].pc = "awaitFetch"
       /\ runs[r].stage = 2
       /\ runs[r].selectedModel = "claude-4.5-opus"
       /\ runs[r].request.url = "anthropic"
       /\ runInfo.attempts = <<1, 1, 0>>

\* ---------------------------------------------------------------------
\* Key storage within one browser session
\* ---------------------------------------------------------------------

\* key management within one browser session: the page may be loaded again,
\* but the browser is not closed, so sessionStorage is kept
SessionNext ==
  \/ SaveApiKeysClick
  \/ \E c \in ConfirmAnswers : ClearAllApiKeys(c)
  \/ \E t \in 1..MaxKeyTasks : DeriveKeyDone(t)
  \/ \E t \in 1..MaxKeyTasks : EncryptDone(t)
  \/ \E t \in 1..MaxKeyTasks : DecryptDone(t)
  \/ PageLoad(FALSE)

SessionSpec == CredInit /\ [][SessionNext]_vars

\* the values saveApiKey stores for the inputs the user may have typed
SavedKeys == {Trim(v) : v \in {i \in KeyInputs : ~Falsy(Trim(i))}}

\* the inputs for which saveApiKey removes the stored item
BlankKeyInputs == {v \in KeyInputs : \A i \in 1..Len(v) : IsSpace(v[i])}

\* C31: within one browser session, when getApiKey returns in the
\* initializeApiKeys that follows saveApiKey(provider, k) in saveApiKeys,
\* with provider's item still stored, the active key of provider is k
\* trimmed; saveApiKey with a blank value leaves no stored item, and the
\* initializeApiKeys after it an empty active key; the step that stores one
\* provider's ciphertext leaves the other providers' items unchanged.
C31_KeyRoundTrip ==
  /\ [][\A t \in 1..MaxKeyTasks :
          ( /\ keyTasks[t].fn = "saveApiKeys"
            /\ keyTasks[t].pc = "crypto"
            /\ keyTasks[t].phase = "init"
            /\ HasStoredKey(ProviderOrder[keyTasks[t].idx])
            /\ DecryptDone(t) )
            => LET p == ProviderOrder[keyTasks[t].idx]
               IN /\ apiKeys'[p] \in SavedKeys
                  /\ apiKeys'[p] = localStorage[p].plain]_vars
  /\ [](\A idx \in 1..Len(ProviderOrder), v \in BlankKeyInputs :
          LET p == ProviderOrder[idx]
              w == SaveApiKey(World(IdleTask), idx, v)
          IN /\ w.ls[p] = NoItem
             /\ InitializeApiKeys(w, idx).keys[p] = <<>>)
  /\ [][\A t \in 1..MaxKeyTasks :
          (keyTasks[t].pc = "crypto" /\ keyTasks[t].phase = "save" /\ EncryptDone(t))
            => \A p \in Providers \ {ProviderOrder[keyTasks[t].idx]} :
                 localStorage'[p] = localStorage[p]]_vars

\* C32: the encryption key can be had again after sessionStorage was
\* cleared, so getApiKey in the page-load initializeApiKeys returns the key
\* of the stored item it read, also in a later session; and once key
\* management is at rest a provider with a stored item has a non-empty
\* active key.
C32_KeySurvivesNewSession ==
  /\ [][\A t \in 1..MaxKeyTasks :
          ( /\ keyTasks[t].fn = "checkConnection"
            /\ keyTasks[t].pc = "crypto"
            /\ keyTasks[t].phase = "init"
            /\ DecryptDone(t) )
            => apiKeys'[ProviderOrder[keyTasks[t].idx]] = keyTasks[t].cipher.plain]_vars
  /\ [](Quiescent => \A p \in Providers : HasStoredKey(p) => ~Falsy(apiKeys[p]))

\* C33: under every interleaving of the activations that call
\* getEncryptionKey, every encryption and decryption in progress uses the
\* key held in sessionStorage, and a ciphertext is written under the key
\* that sessionStorage holds at that moment.
C33_OneKeyPerSession ==
  /\ [](\A t \in 1..MaxKeyTasks :
          keyTasks[t].pc = "crypto" => keyTasks[t].ek = sessionStorage)
  /\ [][\A t \in 1..MaxKeyTasks :
          (keyTasks[t].pc = "crypto" /\ keyTasks[t].phase = "save" /\ EncryptDone(t))
            => LET p == ProviderOrder[keyTasks[t].idx]
               IN localStorage'[p].ek = sessionStorage']_vars

\* ---------------------------------------------------------------------
\* The relays
\* ---------------------------------------------------------------------

\* the header list a relay has built
OutgoingHeaders == relay.result.outgoingHeaders

\* the lines of the outgoing list whose name is lower, in whatever letter case
LinesNamed(lower) ==
  {i \in 1..Len(OutgoingHeaders) : OutgoingHeaders[i][1].lower = lower}

\* a relay script ran on a request and reached curl_exec
Forwarded == relay.script \in RelayScripts /\ relay.result.forwarded

\* C34: for every list of incoming headers, in every letter case of their
\* names, the list ccc_filter_incoming_headers returns has no line named
\* host, content-length, accept-encoding, connection, keep-alive,
\* proxy-authenticate, proxy-authorization, te, trailer, transfer-encoding
\* or upgrade, and has a line for every other incoming header and for every
\* override; the same holds of the list a relay script sends upstream.
C34_HopByHopStripped ==
  (relay.pc = "filtered" \/ Forwarded) =>
    /\ \A i \in 1..Len(OutgoingHeaders) : OutgoingHeaders[i][1].lower \notin BlockedNames
    /\ \A j \in 1..Len(relay.incomingHeaders) :
         LET h == relay.incomingHeaders[j]
         IN h.name.lower \notin BlockedNames
              => \E i \in 1..Len(OutgoingHeaders) : OutgoingHeaders[i] = <<h.name, ": ", h.value>>
    /\ \A k \in 1..Len(relay.overrides) :
         LET v == relay.overrides[k]
         IN \E i \in 1..Len(OutgoingHeaders) : OutgoingHeaders[i] = <<v.name, ": ", v.value>>
    /\ Len(OutgoingHeaders) >= Len(relay.overrides)
         + Cardinality({j \in 1..Len(relay.incomingHeaders) :
                          relay.incomingHeaders[j].name.lower \notin BlockedNames})

\* the filter was applied to a blocked header written in capitals, a header
\* that is not blocked and two overrides
C34_Witness ==
  /\ relay.pc = "filtered"
  /\ Len(relay.incomingHeaders) = 2
  /\ relay.incomingHeaders[1].name = HeaderName("transfer-encoding", "UPPER")
  /\ relay.incomingHeaders[2].name = HeaderName("content-type", "Title")
  /\ Len(relay.overrides) = 2
  /\ Len(OutgoingHeaders) = 3

\* the key the request supplies in the relay's auth header ('' if none)
RequestHeaderKey ==
  LET hits == {j \in 1..Len(relay.incomingHeaders) :
                 relay.incomingHeaders[j].name.lower = AuthHeaderName[relay.script]}
  IN IF hits = {} THEN <<>>
     ELSE relay.incomingHeaders[CHOOSE j \in hits : TRUE].value

\* the key of the server environment ('' if none)
EnvironmentKey == IF relay.env \in {PhpFalse, <<>>} THEN <<>> ELSE relay.env

\* the value of the auth header for the key the Anthropic or OpenAI relay
\* resolves: the request's if it is not empty, else the environment's
ResolvedAuthValue ==
  IF RequestHeaderKey # <<>> THEN RequestHeaderKey
  ELSE IF relay.script = "openai" THEN <<"Bearer ">> \o EnvironmentKey
  ELSE EnvironmentKey

\* C35: in the header list the Anthropic and the OpenAI relay send upstream,
\* the auth header (x-api-key, Authorization) occurs exactly once and
\* carries the resolved key, whether the key came from the request or from
\* the environment.
C35_AuthHeaderOnce ==
  (Forwarded /\ relay.script \in {"anthropic", "openai"}) =>
    /\ Cardinality(LinesNamed(AuthHeaderName[relay.script])) = 1
    /\ \A i \in LinesNamed(AuthHeaderName[relay.script]) :
         OutgoingHeaders[i][3] = ResolvedAuthValue

\* the request names a path: the parameter is present and has something
\* other than slashes in it
PathGiven ==
  \E i \in 1..Len(relay.get) :
    /\ relay.get[i].name = "path"
    /\ \E j \in 1..Len(relay.get[i].value) : relay.get[i].value[j] # "/"

\* the value of the query parameter key ('' if absent)
QueryKey ==
  LET hits == {i \in 1..Len(relay.get) : relay.get[i].name = "key"}
  IN IF hits = {} THEN <<>> ELSE relay.get[CHOOSE i \in hits : TRUE].value

\* the request carries a key that is not empty
RequestSuppliesKey ==
  \/ RequestHeaderKey # <<>>
  \/ relay.script = "gemini" /\ QueryKey # <<>>

\* the relay answered with an error of its own and made no upstream request
Rejected(statusCode) ==
  /\ relay.pc = "answered"
  /\ ~relay.result.forwarded
  /\ relay.result.statusCode = statusCode
  /\ relay.result.targetUrl = NoUrl
  /\ relay.result.outgoingHeaders = <<>>

\* C36: each relay answers 400 when the request names no path and 401 when
\* it names one and neither the request nor the environment supplies a key,
\* in both cases without an upstream request; only a request with a path
\* and a key is forwarded.  When curl_exec fails the relay answers 502,
\* otherwise with the upstream status code and body as they came.
C36_RejectWithoutForwarding ==
  /\ [](relay.script \in RelayScripts =>
          /\ ~PathGiven => Rejected(400)
          /\ (PathGiven /\ ~RequestSuppliesKey /\ EnvironmentKey = <<>>) => Rejected(401)
          /\ relay.result.forwarded => PathGiven /\ (RequestSuppliesKey \/ EnvironmentKey # <<>>))
  /\ [][\A o \in CurlOutcomes :
          (relay.pc = "upstream" /\ CurlReturns(o))
            => /\ relay'.pc = "answered"
               /\ IF o.ok
                  THEN /\ relay'.result.statusCode = o.statusCode
                       /\ relay'.result.body = o.body
                  ELSE /\ relay'.result.statusCode = 502
                       /\ relay'.result.body \notin {r.body : r \in UpstreamResponses}]_vars

\* the Gemini relay answered 401 to a request with a path and no key, without
\* an upstream request
C36_Witness ==
  /\ relay.script = "gemini"
  /\ PathGiven
  /\ ~RequestSuppliesKey
  /\ EnvironmentKey = <<>>
  /\ Rejected(401)

\* the key of the request as the claim of C37 has it: for the Gemini relay
\* the query parameter key if it is not empty, else the x-goog-api-key
\* header; for the others the auth header
RequestKey ==
  IF relay.script = "gemini" /\ QueryKey # <<>> THEN QueryKey ELSE RequestHeaderKey

\* the key a relay is to use: the request's if not empty, else the environment's
PreferredKey ==
  IF RequestKey # <<>> THEN RequestKey
  ELSE IF EnvironmentKey = <<>> THEN <<>>
  ELSE IF relay.script = "openai" THEN <<"Bearer ">> \o EnvironmentKey
  ELSE EnvironmentKey

\* the places of the parameter key in the query string sent upstream
QueryKeyPlaces ==
  {i \in 1..Len(relay.result.targetUrl.queryString) :
     relay.result.targetUrl.queryString[i][1] = "key"}

\* the non-empty keys a relay sends upstream: in the query string (Gemini)
\* or in the auth header
SentKeys ==
  IF relay.script = "gemini"
  THEN {relay.result.targetUrl.queryString[i][3] : i \in QueryKeyPlaces}
  ELSE {OutgoingHeaders[i][3] : i \in LinesNamed(AuthHeaderName[relay.script])} \ {<<>>}

\* C37: a relay that gets a path uses the non-empty key of the request in
\* preference to the environment's key, and the environment's key only when
\* the request supplies no non-empty key; for the Gemini relay the key of
\* the request is the query parameter key if not empty, else the
\* x-goog-api-key header, and the key is in the upstream query string
\* exactly once.
C37_KeyPrecedence ==
  (relay.script \in RelayScripts /\ PathGiven) =>
    /\ PreferredKey # <<>> => (relay.result.forwarded /\ SentKeys = {PreferredKey})
    /\ (relay.script = "gemini" /\ relay.result.forwarded) => Cardinality(QueryKeyPlaces) = 1

====
